---- MODULE Spec2Model ----
(***************************************************************************)
(* Tenant-scoped query and aggregation engine of the Rita dashboard API.   *)
(*                                                                         *)
(* A request is received by a route, passes the identity extractor and,    *)
(* on guarded routes, the tenant guard, and is then served by the route    *)
(* handler, which builds parameterized SQL (fragments with positional      *)
(* placeholders and an aligned parameter list), sends it to the storage    *)
(* engine and formats the rows.  SQL text is modelled as the sequence of   *)
(* its predicate fragments, each a sequence of tokens (column, operator,   *)
(* placeholder index) in textual order; text values are sequences of       *)
(* one-character strings.                                                  *)
(***************************************************************************)
EXTENDS Integers, Sequences, FiniteSets, TLC

VARIABLES db, reqs, listing, returned

vars == <<db, reqs, listing, returned>>

---------------------------------------------------------------------------
(* Bounds of the model                                                     *)

MaxPage == 3
MaxLimit == 2

---------------------------------------------------------------------------
(* Text                                                                    *)

DigitChars == {"0", "1", "2", "3", "4", "5", "6", "7", "8", "9"}

DigitVal(c) ==
    CASE c = "0" -> 0 [] c = "1" -> 1 [] c = "2" -> 2 [] c = "3" -> 3
      [] c = "4" -> 4 [] c = "5" -> 5 [] c = "6" -> 6 [] c = "7" -> 7
      [] c = "8" -> 8 [] c = "9" -> 9

\* the decimal text of a one-digit number
DigitText(n) == <<CHOOSE c \in DigitChars : DigitVal(c) = n>>

IsSpace(c) == c = " "

RECURSIVE TrimLeft(_)
TrimLeft(s) == IF s # <<>> /\ IsSpace(Head(s)) THEN TrimLeft(Tail(s)) ELSE s

RECURSIVE TrimRight(_)
TrimRight(s) ==
    IF s # <<>> /\ IsSpace(s[Len(s)])
    THEN TrimRight(SubSeq(s, 1, Len(s) - 1))
    ELSE s

\* String.prototype.trim
Trim(s) == TrimRight(TrimLeft(s))

\* the longest prefix of s made of decimal digits
RECURSIVE LeadingDigits(_)
LeadingDigits(s) ==
    IF s # <<>> /\ Head(s) \in DigitChars
    THEN <<Head(s)>> \o LeadingDigits(Tail(s))
    ELSE <<>>

RECURSIVE DecValue(_)
DecValue(d) ==
    IF d = <<>> THEN 0
    ELSE 10 * DecValue(SubSeq(d, 1, Len(d) - 1)) + DigitVal(d[Len(d)])

AllDigits(s) == s # <<>> /\ \A i \in 1..Len(s) : s[i] \in DigitChars

\* column ILIKE '%needle%' (the alphabet of the model is lower case and
\* holds neither % nor _)
Contains(hay, needle) ==
    \E i \in 0..(Len(hay) - Len(needle)) :
        SubSeq(hay, i + 1, i + Len(needle)) = needle

---------------------------------------------------------------------------
(* JavaScript values: numbers, strings, NaN and null                       *)

Num(n) == [num |-> n]
Str(s) == [str |-> s]
NaN == [nan |-> TRUE]
Null == [null |-> TRUE]

IsNum(v) == "num" \in DOMAIN v
IsStr(v) == "str" \in DOMAIN v
IsNull(v) == "null" \in DOMAIN v
IsNaNValue(v) == "nan" \in DOMAIN v

Undefined == [undefined |-> TRUE]

\* ToBoolean
Truthy(v) ==
    IF IsNum(v) THEN v.num # 0
    ELSE IF IsStr(v) THEN v.str # <<>>
    ELSE FALSE

\* a || b
Or(a, b) == IF Truthy(a) THEN a ELSE b

\* parseInt(v): leading white space is skipped, the leading decimal digits
\* are read and whatever follows them is ignored
parseInt(v) ==
    IF IsNum(v) THEN v
    ELSE IF IsStr(v)
         THEN LET d == LeadingDigits(TrimLeft(v.str))
              IN  IF d = <<>> THEN NaN ELSE Num(DecValue(d))
         ELSE NaN

\* isNaN(v) is Number.isNaN(Number(v)): Number(null) and Number('') are 0
isNaN(v) ==
    IF IsNum(v) \/ IsNull(v) THEN FALSE
    ELSE IF IsStr(v)
         THEN LET t == Trim(v.str) IN t # <<>> /\ ~AllDigits(t)
         ELSE TRUE

\* `%${s}%`
Wild(s) == [like |-> s]

\* a - b and a * b on numbers: NaN when an operand is NaN
Minus(a, b) == IF IsNum(a) /\ IsNum(b) THEN Num(a.num - b.num) ELSE NaN
Times(a, b) == IF IsNum(a) /\ IsNum(b) THEN Num(a.num * b.num) ELSE NaN

\* the quotient rounded down
MathFloorDiv(a, b) == a \div b

\* Math.ceil(a / b) for integers a >= 0 and b > 0
MathCeilDiv(a, b) == IF a % b = 0 THEN a \div b ELSE (a \div b) + 1

\* a destructured property of req.query with its default
Get(q, k, default) == IF k \in DOMAIN q THEN Str(q[k]) ELSE default

---------------------------------------------------------------------------
(* The data set: the tables the routes read.  Two tenants; contacts are    *)
(* shared between them; two sessions of tenant 1 carry the same creation   *)
(* time.  Times are small integers.                                        *)

Txt1 == <<"1">>
Txt2 == <<"2">>
Ana == <<"a", "n", "a">>
Bo == <<"b", "o">>

Companies ==
    { [id |-> 1, name |-> <<"a", "b">>],
      [id |-> 2, name |-> <<"b", "a">>] }

Contacts ==
    { [id |-> 1, name |-> Ana, email |-> <<"a", "1">>,
       phone_number |-> <<"1", "2">>, created_at |-> 1],
      [id |-> 2, name |-> Bo, email |-> <<"b", "2">>,
       phone_number |-> <<"2", "1">>, created_at |-> 2] }

ContactCompany ==
    { [contact_id |-> 1, company_id |-> 1],
      [contact_id |-> 2, company_id |-> 1],
      [contact_id |-> 2, company_id |-> 2] }

Sessions ==
    { [id |-> 1, company_id |-> 1, contact_id |-> 1, status |-> 1, created_at |-> 1],
      [id |-> 2, company_id |-> 1, contact_id |-> 2, status |-> 1, created_at |-> 2],
      [id |-> 3, company_id |-> 1, contact_id |-> 1, status |-> 3, created_at |-> 2],
      [id |-> 4, company_id |-> 2, contact_id |-> 2, status |-> 0, created_at |-> 3] }

\* the messages (table conversations)
Messages ==
    { [id |-> 1, company_id |-> 1, session_id |-> 1, content |-> <<"o", "n", "a">>,
       sender |-> 0, created_at |-> 1],
      [id |-> 2, company_id |-> 1, session_id |-> 1, content |-> <<"a", "n">>,
       sender |-> 1, created_at |-> 2],
      [id |-> 3, company_id |-> 1, session_id |-> 2, content |-> <<"b", "a", "n">>,
       sender |-> 0, created_at |-> 3],
      [id |-> 4, company_id |-> 2, session_id |-> 4, content |-> <<"a", "n">>,
       sender |-> 0, created_at |-> 4],
      [id |-> 5, company_id |-> 1, session_id |-> 1, content |-> <<"b", "o">>,
       sender |-> 0, created_at |-> 2] }

Leads ==
    { [id |-> 1, company_id |-> 1, contact_id |-> 1, name |-> Ana, email |-> <<"a", "1">>,
       phone_number |-> <<"1", "2">>, location |-> <<"o">>, lead_source |-> <<"a">>,
       channel |-> <<"b">>, status |-> 1, created_at |-> 1],
      [id |-> 2, company_id |-> 1, contact_id |-> 2, name |-> Bo, email |-> <<"b", "2">>,
       phone_number |-> <<"2", "1">>, location |-> <<"o">>, lead_source |-> <<"a">>,
       channel |-> <<"a">>, status |-> 0, created_at |-> 2],
      [id |-> 3, company_id |-> 2, contact_id |-> 2, name |-> Bo, email |-> <<"b", "2">>,
       phone_number |-> <<"2", "1">>, location |-> <<"n">>, lead_source |-> <<"b">>,
       channel |-> <<"b">>, status |-> 1, created_at |-> 3] }

TransferredLeads ==
    { [id |-> 1, lead_id |-> 1, session_id |-> 1, contact_id |-> 1, company_id |-> 1,
       summary |-> <<"o", "n">>, created_at |-> 2],
      [id |-> 2, lead_id |-> 2, session_id |-> 2, contact_id |-> 2, company_id |-> 1,
       summary |-> <<"a", "n">>, created_at |-> 3],
      [id |-> 3, lead_id |-> 3, session_id |-> 4, contact_id |-> 2, company_id |-> 2,
       summary |-> <<"a", "n">>, created_at |-> 4] }

DiscardedLeads ==
    { [id |-> 1, lead_id |-> 1, session_id |-> 3, contact_id |-> 1,
       summary |-> <<"n", "o">>, created_at |-> 3],
      [id |-> 2, lead_id |-> 2, session_id |-> 2, contact_id |-> 2,
       summary |-> <<"n", "o">>, created_at |-> 4],
      [id |-> 3, lead_id |-> 3, session_id |-> 4, contact_id |-> 2,
       summary |-> <<"n", "o">>, created_at |-> 5] }

KnowledgeVault ==
    { [id |-> 1, contact_id |-> 1, session_id |-> 1, company_id |-> 1,
       key |-> <<"a">>, value |-> <<"b">>, created_at |-> 2],
      [id |-> 2, contact_id |-> 2, session_id |-> 4, company_id |-> 2,
       key |-> <<"a">>, value |-> <<"o">>, created_at |-> 4] }

\* table stock: EMPRESA holds the tenant's name
Stock ==
    { [id |-> 1, empresa |-> <<"a", "b">>, marca |-> <<"a", "n">>, modelo |-> <<"a">>,
       categoria |-> <<"b">>, preco |-> 2, combustivel |-> <<"o">>,
       transmissao |-> <<"a">>, local |-> <<"n">>, created_at |-> 1],
      [id |-> 2, empresa |-> <<"a", "b">>, marca |-> <<"b", "o">>, modelo |-> <<"a">>,
       categoria |-> <<"b">>, preco |-> 1, combustivel |-> <<"o">>,
       transmissao |-> <<"a">>, local |-> <<"n">>, created_at |-> 2],
      [id |-> 3, empresa |-> <<"b", "a">>, marca |-> <<"a", "n">>, modelo |-> <<"a">>,
       categoria |-> <<"b">>, preco |-> 2, combustivel |-> <<"o">>,
       transmissao |-> <<"a">>, local |-> <<"n">>, created_at |-> 3] }

DataSet ==
    [ companies |-> Companies, contacts |-> Contacts,
      contact_company |-> ContactCompany, sessions |-> Sessions,
      conversations |-> Messages, leads |-> Leads,
      transferred_leads |-> TransferredLeads,
      discarded_leads |-> DiscardedLeads,
      knowledge_vault |-> KnowledgeVault, stock |-> Stock ]


---------------------------------------------------------------------------
(* SQL text.  A token is one comparison `column op $ph`; a fragment is a   *)
(* parenthesised group of tokens; a WHERE clause is the sequence of its    *)
(* AND-ed fragments in textual order.  A statement names its relation      *)
(* (the FROM clause with its joins), its WHERE clause, the placeholders of *)
(* LIMIT and OFFSET (0 when the clause is absent), its ORDER BY column     *)
(* and whether it counts or selects.                                       *)

Tok(col, op, ph) == [col |-> col, op |-> op, ph |-> ph]

\* (t1 OR t2 OR ...)
AnyOf(toks) == [kind |-> "or", toks |-> toks]

\* EXISTS (SELECT 1 FROM sessions s2 WHERE s2.contact_id = ct.id AND t1 AND ...)
ExistsSession(toks) == [kind |-> "exists_session", toks |-> toks]

\* EXISTS (SELECT 1 FROM contact_company cc WHERE cc.contact_id = c.id AND t1)
ExistsContactCompany(toks) == [kind |-> "exists_contact_company", toks |-> toks]

OrderBy(col, desc) == [col |-> col, desc |-> desc]

NoOrder == [col |-> "", desc |-> FALSE]

Select(rel, where, order, limit, offset) ==
    [rel |-> rel, where |-> where, order |-> order, limit |-> limit,
     offset |-> offset, count |-> FALSE]

Count(rel, where) ==
    [rel |-> rel, where |-> where, order |-> NoOrder, limit |-> 0,
     offset |-> 0, count |-> TRUE]

\* the placeholders a WHERE clause references, in textual order
RECURSIVE PlaceholderSeq(_)
PlaceholderSeq(where) ==
    IF where = <<>> THEN <<>>
    ELSE [i \in 1..Len(Head(where).toks) |-> Head(where).toks[i].ph]
         \o PlaceholderSeq(Tail(where))

Range(f) == {f[i] : i \in DOMAIN f}

\* every placeholder a statement references
Placeholders(sql) ==
    Range(PlaceholderSeq(sql.where)) \cup ({sql.limit, sql.offset} \ {0})

\* String.prototype.replace(`$from`, `$to`) on a piece of SQL text: only the
\* first occurrence of the pattern is replaced
RECURSIVE ReplaceInToks(_, _, _)
ReplaceInToks(toks, from, to) ==
    IF toks = <<>> THEN <<>>
    ELSE IF Head(toks).ph = from
         THEN <<[Head(toks) EXCEPT !.ph = to]>> \o Tail(toks)
         ELSE <<Head(toks)>> \o ReplaceInToks(Tail(toks), from, to)

RECURSIVE Replace(_, _, _)
Replace(where, from, to) ==
    IF where = <<>> THEN <<>>
    ELSE IF \E i \in 1..Len(Head(where).toks) : Head(where).toks[i].ph = from
         THEN <<[Head(where) EXCEPT !.toks = ReplaceInToks(@, from, to)]>>
              \o Tail(where)
         ELSE <<Head(where)>> \o Replace(Tail(where), from, to)

\* Array.prototype.slice(0, end)
Slice(a, end) ==
    IF end <= 0 THEN <<>>
    ELSE SubSeq(a, 1, IF end < Len(a) THEN end ELSE Len(a))


---------------------------------------------------------------------------
(* The storage engine: the relations of the FROM clauses, the evaluation   *)
(* of a WHERE clause under a parameter list, ORDER BY / LIMIT / OFFSET.    *)
(* Every row carries `id`, the primary key of the statement's root entity. *)

NullContact ==
    [id |-> 0, name |-> <<>>, email |-> <<>>, phone_number |-> <<>>, created_at |-> 0]

NullLead ==
    [id |-> 0, company_id |-> 0, contact_id |-> 0, name |-> <<>>, email |-> <<>>,
     phone_number |-> <<>>, location |-> <<>>, lead_source |-> <<>>,
     channel |-> <<>>, status |-> 0, created_at |-> 0]

NullSession ==
    [id |-> 0, company_id |-> 0, contact_id |-> 0, status |-> 0, created_at |-> 0]

\* the row of table t a LEFT JOIN ... ON x = t.id attaches (nulls when none)
Joined(t, id, nulls) ==
    IF \E r \in t : r.id = id THEN CHOOSE r \in t : r.id = id ELSE nulls

\* COALESCE((SELECT c.created_at FROM conversations c JOIN sessions s6 ...
\*           WHERE s6.contact_id = ct.id AND s6.company_id = $1
\*           ORDER BY c.created_at DESC LIMIT 1), ct.created_at)
LastActivity(d, ct, companyId) ==
    LET times == { m.created_at : m \in
                     { c \in d.conversations :
                         \E s6 \in d.sessions :
                             /\ s6.id = c.session_id
                             /\ s6.contact_id = ct.id
                             /\ s6.company_id = companyId } }
    IN  IF times = {} THEN ct.created_at
        ELSE CHOOSE t \in times : \A u \in times : u <= t

Relation(d, rel) ==
    CASE rel \in {"sessions", "sessions_lateral"} ->
           { LET ct == Joined(d.contacts, x.contact_id, NullContact)
             IN  [id |-> x.id, s_id |-> x.id, s_company_id |-> x.company_id,
                  s_status |-> x.status, s_created_at |-> x.created_at,
                  ct_id |-> ct.id, ct_name |-> ct.name,
                  ct_phone_number |-> ct.phone_number, ct_email |-> ct.email]
             : x \in d.sessions }
      [] rel = "contact_sessions" ->
           { [id |-> p[1].id, ct_id |-> p[1].id, ct_name |-> p[1].name,
              ct_phone_number |-> p[1].phone_number, ct_email |-> p[1].email,
              ct_created_at |-> p[1].created_at, s_id |-> p[2].id,
              s_company_id |-> p[2].company_id, s_status |-> p[2].status,
              last_activity |-> LastActivity(d, p[1], p[2].company_id)]
             : p \in {q \in d.contacts \X d.sessions : q[2].contact_id = q[1].id} }
      [] rel = "leads" ->
           { LET ct == Joined(d.contacts, x.contact_id, NullContact)
             IN  [id |-> x.id, l_id |-> x.id, l_company_id |-> x.company_id,
                  l_status |-> x.status, l_name |-> x.name, l_email |-> x.email,
                  l_phone_number |-> x.phone_number, l_location |-> x.location,
                  l_lead_source |-> x.lead_source, l_channel |-> x.channel,
                  l_created_at |-> x.created_at, ct_name |-> ct.name]
             : x \in d.leads }
      [] rel = "transferred_leads" ->
           { LET l == Joined(d.leads, x.lead_id, NullLead)
             IN  [id |-> x.id, tl_company_id |-> x.company_id,
                  tl_summary |-> x.summary, tl_created_at |-> x.created_at,
                  l_name |-> l.name, l_email |-> l.email]
             : x \in d.transferred_leads }
      [] rel = "discarded_leads" ->
           { LET ss == Joined(d.sessions, x.session_id, NullSession)
             IN  [id |-> x.id, dl_created_at |-> x.created_at,
                  s_company_id |-> ss.company_id]
             : x \in d.discarded_leads }
      [] rel = "stock" ->
           { [id |-> x.id, EMPRESA |-> x.empresa, MARCA |-> x.marca,
              MODELO |-> x.modelo, CATEGORIA |-> x.categoria, PRECO |-> x.preco,
              COMBUSTIVEL |-> x.combustivel, TRANSMISSAO |-> x.transmissao,
              LOCAL_ |-> x.local, created_at |-> x.created_at]
             : x \in d.stock }
      [] rel = "companies" ->
           { [id |-> x.id, c_id |-> x.id, c_name |-> x.name] : x \in d.companies }
      [] rel = "conversations" ->
           { LET ss == Joined(d.sessions, x.session_id, NullSession)
                 ct == Joined(d.contacts, ss.contact_id, NullContact)
             IN  [id |-> x.id, c_session_id |-> x.session_id,
                  c_content |-> x.content, c_created_at |-> x.created_at,
                  s_company_id |-> ss.company_id, s_status |-> ss.status,
                  ct_name |-> ct.name]
             : x \in d.conversations }
      [] rel = "knowledge_vault" ->
           { [id |-> x.id, kv_session_id |-> x.session_id,
              kv_created_at |-> x.created_at]
             : x \in d.knowledge_vault }
      [] rel = "contacts" ->
           { [id |-> x.id, c_id |-> x.id, c_name |-> x.name, c_email |-> x.email,
              c_phone_number |-> x.phone_number, c_created_at |-> x.created_at]
             : x \in d.contacts }

TextCols ==
    {"ct_name", "ct_phone_number", "ct_email", "l_name", "l_email",
     "l_phone_number", "l_location", "l_lead_source", "l_channel",
     "tl_summary", "EMPRESA", "MARCA", "MODELO", "CATEGORIA", "COMBUSTIVEL",
     "TRANSMISSAO", "LOCAL_", "c_name", "c_email", "c_phone_number", "c_content"}

\* whether the engine accepts parameter v where token t uses it
ParamOk(t, v) ==
    IF t.op = "ILIKE" THEN "like" \in DOMAIN v
    ELSE IF t.col \in TextCols THEN IsStr(v) \/ IsNull(v)
    ELSE IsNum(v) \/ IsNull(v) \/ (IsStr(v) /\ AllDigits(Trim(v.str)))

IntOf(v) == IF IsNum(v) THEN v.num ELSE DecValue(Trim(v.str))

TokHolds(row, t, v) ==
    IF t.op = "ILIKE" THEN Contains(row[t.col], v.like)
    ELSE IF IsNull(v) \/ IsNaNValue(v) THEN FALSE
    ELSE IF t.col \in TextCols THEN row[t.col] = v.str
    ELSE CASE t.op = "=" -> row[t.col] = IntOf(v)
           [] t.op = ">=" -> row[t.col] >= IntOf(v)
           [] t.op = "<=" -> row[t.col] <= IntOf(v)

FragHolds(d, row, frag, params) ==
    CASE frag.kind = "or" ->
           \E i \in 1..Len(frag.toks) :
               TokHolds(row, frag.toks[i], params[frag.toks[i].ph])
      [] frag.kind = "exists_session" ->
           \E s2 \in d.sessions :
               /\ s2.contact_id = row.ct_id
               /\ \A i \in 1..Len(frag.toks) :
                      TokHolds([s2_company_id |-> s2.company_id, s2_status |-> s2.status],
                               frag.toks[i], params[frag.toks[i].ph])
      [] frag.kind = "exists_contact_company" ->
           \E cc \in d.contact_company :
               /\ cc.contact_id = row.c_id
               /\ \A i \in 1..Len(frag.toks) :
                      TokHolds([cc_company_id |-> cc.company_id],
                               frag.toks[i], params[frag.toks[i].ph])

\* the statement binds: it references exactly the parameters $1..$n it is
\* given, each of a type its use accepts, and LIMIT/OFFSET are numbers >= 0
Binds(sql, params) ==
    /\ Placeholders(sql) = 1..Len(params)
    /\ \A i \in 1..Len(sql.where) : \A j \in 1..Len(sql.where[i].toks) :
           ParamOk(sql.where[i].toks[j], params[sql.where[i].toks[j].ph])
    /\ \A k \in {sql.limit, sql.offset} \ {0} : IsNum(params[k]) /\ params[k].num >= 0

Matching(d, sql, params) ==
    { row \in Relation(d, sql.rel) :
        \A i \in 1..Len(sql.where) : FragHolds(d, row, sql.where[i], params) }

\* the orders ORDER BY allows for the root entities of the rows: rows that
\* compare equal on the ORDER BY column come in any order
Orderings(rows, order) ==
    LET ids == {row.id : row \in rows}
        n == Cardinality(ids)
        key(i) == (CHOOSE row \in rows : row.id = i)[order.col]
    IN  { o \in [1..n -> ids] :
            /\ \A i, j \in 1..n : i # j => o[i] # o[j]
            /\ order.col # "" =>
                 \A i, j \in 1..n : i < j =>
                     IF order.desc THEN key(o[i]) >= key(o[j])
                     ELSE key(o[i]) <= key(o[j]) }

Window(o, lim, off) ==
    IF off >= Len(o) THEN <<>>
    ELSE SubSeq(o, off + 1, IF off + lim < Len(o) THEN off + lim ELSE Len(o))

\* the message columns a statement on sessions selects for session id:
\* (SELECT COUNT(*) FROM conversations c WHERE c.session_id = s.id), and the
\* content, created_at and sender of `ORDER BY c.created_at DESC LIMIT 1`, which
\* is any of the messages with the greatest created_at: one row for all columns
\* in the LATERAL join, one row for each column in the scalar subqueries
MessageColumns(d, sql, id) ==
    LET msgs == {c \in d.conversations : c.session_id = id}
        latest == {c \in msgs : \A o \in msgs : o.created_at <= c.created_at}
    IN  IF sql.rel \notin {"sessions", "sessions_lateral"} \/ sql.count THEN {<<>>}
        ELSE IF msgs = {}
        THEN {[message_count |-> 0, last_message |-> Null, last_message_time |-> Null]
              @@ (IF sql.rel = "sessions_lateral"
                  THEN [last_message_sender |-> Null] ELSE <<>>)}
        ELSE IF sql.rel = "sessions_lateral"
        THEN { [message_count |-> Cardinality(msgs), last_message |-> Str(c.content),
                last_message_time |-> Num(c.created_at),
                last_message_sender |-> Num(c.sender)] : c \in latest }
        ELSE { [message_count |-> Cardinality(msgs), last_message |-> Str(c.content),
                last_message_time |-> Num(t.created_at)] : c \in latest, t \in latest }

\* the aggregate columns of the page statement of GET /api/conversations/contacts
\* for the group of contact id, as the response carries them:
\*   COUNT(s.id), COUNT(CASE WHEN s.status IN (1, 2) THEN 1 END) over the rows
\*   of the group, and (SELECT s2.status FROM sessions s2 WHERE s2.contact_id =
\*   ct.id AND s2.company_id = $1 ORDER BY s2.created_at DESC LIMIT 1), which is
\*   the status of any of the sessions created last.
\* The driver returns a count as text: parseInt(row.session_count) || 0
ContactColumns(d, sql, params, id) ==
    LET group == {row \in Matching(d, sql, params) : row.id = id}
        active == {row \in group : row.s_status \in {1, 2}}
        s2 == {s \in d.sessions : s.contact_id = id /\ s.company_id = IntOf(params[1])}
        latest == {s \in s2 : \A o \in s2 : o.created_at <= s.created_at}
        count(rows) == Or(parseInt(Str(DigitText(Cardinality(rows)))), Num(0))
    IN  { [session_count |-> count(group).num, active_sessions |-> count(active).num,
           latest_status |-> s.status] : s \in latest }

\* pool.query(text, params): the outcomes the engine may produce
PoolQuery(d, sql, params) ==
    IF ~Binds(sql, params) THEN {[error |-> TRUE, rows |-> <<>>, cols |-> <<>>, total |-> 0]}
    ELSE IF sql.count
         THEN {[error |-> FALSE, rows |-> <<>>, cols |-> <<>>,
                total |-> Cardinality({row.id : row \in Matching(d, sql, params)})]}
         ELSE UNION {
                LET rows == Window(o,
                                   IF sql.limit = 0 THEN Len(o) ELSE params[sql.limit].num,
                                   IF sql.offset = 0 THEN 0 ELSE params[sql.offset].num)
                    columns(id) == IF sql.rel = "contact_sessions"
                                   THEN ContactColumns(d, sql, params, id)
                                   ELSE MessageColumns(d, sql, id)
                    all == UNION {columns(rows[i]) : i \in 1..Len(rows)}
                IN  { [error |-> FALSE, total |-> 0, rows |-> rows, cols |-> cols]
                      : cols \in { c \in [1..Len(rows) -> all] :
                                     \A i \in 1..Len(rows) :
                                         c[i] \in columns(rows[i]) } }
                : o \in Orderings(Matching(d, sql, params), sql.order) }

\* query(text, params): runs the statement on the pool and rethrows its error
query(d, sql, params) == PoolQuery(d, sql, params)


---------------------------------------------------------------------------
(* The list routes.  Each operator is the handler's query building: the    *)
(* page statement and its parameters, the count statement and its          *)
(* parameters, and the page and limit the response reports.                *)

Plan(pageSql, pageParams, countSql, countParams, page, limit) ==
    [pageSql |-> pageSql, pageParams |-> pageParams, countSql |-> countSql,
     countParams |-> countParams, page |-> parseInt(page), limit |-> parseInt(limit)]

\* an offset that counts pages from 0
OffsetFromZero(page, limit) == Times(parseInt(page), parseInt(limit))

\* const offset = (parseInt(page) - 1) * parseInt(limit)
Offset(page, limit) == Times(Minus(parseInt(page), Num(1)), parseInt(limit))

\* a filter that forgets `paramIndex++`
IncrementedNot(paramIndex) == paramIndex

\* the parameter index after a filter that increments it
Incremented(paramIndex) == paramIndex + 1

\* GET /api/leads
GetLeads(q, reqCompanyId) ==
    LET page == Get(q, "page", Num(1))
        limit == Get(q, "limit", Num(20))
        status == Get(q, "status", Null)
        search == Get(q, "search", Str(<<>>))
        companyId == Or(Get(q, "company_id", Undefined), reqCompanyId)
        statusOn == ~IsNull(status) /\ ~isNaN(status)
        statusFilter ==
            IF statusOn THEN <<AnyOf(<<Tok("l_status", "=", 4)>>)>> ELSE <<>>
        paramIndex == IF statusOn THEN Incremented(4) ELSE 4
        searchFilter ==
            IF Truthy(search)
            THEN <<AnyOf(<<Tok("l_name", "ILIKE", paramIndex),
                           Tok("l_email", "ILIKE", paramIndex),
                           Tok("l_phone_number", "ILIKE", paramIndex)>>)>>
            ELSE <<>>
        queryParams ==
            <<companyId, parseInt(limit), Offset(page, limit)>>
            \o (IF statusOn THEN <<parseInt(status)>> ELSE <<>>)
            \o (IF Truthy(search) THEN <<Wild(search.str)>> ELSE <<>>)
        countParams == Slice(queryParams, paramIndex - 2)
        tenant == <<AnyOf(<<Tok("l_company_id", "=", 1)>>)>>
    IN  Plan(Select("leads", tenant \o statusFilter \o searchFilter,
                    OrderBy("l_created_at", TRUE), 2, 3),
             queryParams,
             Count("leads",
                   tenant
                   \o Replace(statusFilter, paramIndex - 1, Len(countParams) + 1)
                   \o Replace(searchFilter, paramIndex,
                              Len(countParams) + (IF ~IsNull(status) THEN 2 ELSE 1))),
             countParams
             \o (IF statusOn THEN <<parseInt(status)>> ELSE <<>>)
             \o (IF Truthy(search) THEN <<Wild(search.str)>> ELSE <<>>),
             page, limit)

\* GET /api/leads/transferred
GetTransferredLeads(q, reqCompanyId) ==
    LET page == Get(q, "page", Num(1))
        limit == Get(q, "limit", Num(20))
        search == Get(q, "search", Str(<<>>))
        companyId == Or(Get(q, "company_id", Undefined), reqCompanyId)
        searchFilter ==
            IF Truthy(search)
            THEN <<AnyOf(<<Tok("l_name", "ILIKE", 4), Tok("l_email", "ILIKE", 4),
                           Tok("tl_summary", "ILIKE", 4)>>)>>
            ELSE <<>>
        tenant == <<AnyOf(<<Tok("tl_company_id", "=", 1)>>)>>
    IN  Plan(Select("transferred_leads", tenant \o searchFilter,
                    OrderBy("tl_created_at", TRUE), 2, 3),
             <<companyId, parseInt(limit), Offset(page, limit)>>
             \o (IF Truthy(search) THEN <<Wild(search.str)>> ELSE <<>>),
             Count("transferred_leads", tenant \o Replace(searchFilter, 4, 2)),
             IF Truthy(search) THEN <<companyId, Wild(search.str)>> ELSE <<companyId>>,
             page, limit)

\* GET /api/leads/discarded
GetDiscardedLeads(q, reqCompanyId) ==
    LET page == Get(q, "page", Num(1))
        limit == Get(q, "limit", Num(20))
        companyId == Or(Get(q, "company_id", Undefined), reqCompanyId)
        tenant == <<AnyOf(<<Tok("s_company_id", "=", 1)>>)>>
    IN  Plan(Select("discarded_leads", tenant, OrderBy("dl_created_at", TRUE), 2, 3),
             <<companyId, parseInt(limit), Offset(page, limit)>>,
             Count("discarded_leads", tenant),
             <<companyId>>,
             page, limit)

\* GET /api/sessions
GetSessions(q, reqCompanyId) ==
    LET page == Get(q, "page", Num(1))
        limit == Get(q, "limit", Num(50))
        status == Get(q, "status", Null)
        companyId == Or(Get(q, "company_id", Undefined), reqCompanyId)
        statusOn == ~IsNull(status) /\ ~isNaN(status)
        statusFilter ==
            IF statusOn THEN <<AnyOf(<<Tok("s_status", "=", 4)>>)>> ELSE <<>>
        tenant == <<AnyOf(<<Tok("s_company_id", "=", 1)>>)>>
    IN  Plan(Select("sessions", tenant \o statusFilter,
                    OrderBy("s_created_at", TRUE), 2, 3),
             <<companyId, parseInt(limit), Offset(page, limit)>>
             \o (IF statusOn THEN <<parseInt(status)>> ELSE <<>>),
             Count("sessions", tenant \o Replace(statusFilter, 4, 2)),
             IF ~IsNull(status) THEN <<companyId, parseInt(status)>> ELSE <<companyId>>,
             page, limit)


\* GET /api/conversations
GetConversations(q, reqCompanyId) ==
    LET page == Get(q, "page", Num(1))
        limit == Get(q, "limit", Num(20))
        search == Get(q, "search", Str(<<>>))
        status == Get(q, "status", Null)
        companyId == Or(Get(q, "company_id", Undefined), reqCompanyId)
        searchFilter ==
            IF Truthy(search)
            THEN <<AnyOf(<<Tok("ct_name", "ILIKE", 4),
                           Tok("ct_phone_number", "ILIKE", 4),
                           Tok("ct_email", "ILIKE", 4)>>)>>
            ELSE <<>>
        paramIndex == IF Truthy(search) THEN Incremented(4) ELSE 4
        statusOn == ~IsNull(status) /\ ~isNaN(status)
        statusFilter ==
            IF statusOn THEN <<AnyOf(<<Tok("s_status", "=", paramIndex)>>)>> ELSE <<>>
        tenant == <<AnyOf(<<Tok("s_company_id", "=", 1)>>)>>
        statusParam == IF ~IsNull(status) THEN <<parseInt(status)>> ELSE <<>>
    IN  Plan(Select("sessions_lateral", tenant \o searchFilter \o statusFilter,
                    OrderBy("s_id", FALSE), 2, 3),
             <<companyId, parseInt(limit), Offset(page, limit)>>
             \o (IF Truthy(search) THEN <<Wild(search.str)>> ELSE <<>>)
             \o (IF statusOn THEN <<parseInt(status)>> ELSE <<>>),
             Count("sessions",
                   tenant
                   \o Replace(searchFilter, paramIndex - 1, 2)
                   \o Replace(statusFilter, paramIndex, IF Truthy(search) THEN 3 ELSE 2)),
             IF Truthy(search)
             THEN <<companyId, Wild(search.str)>> \o statusParam
             ELSE <<companyId>> \o statusParam,
             page, limit)

\* GET /api/conversations/contacts
GetContacts(q, reqCompanyId) ==
    LET page == Get(q, "page", Num(1))
        limit == Get(q, "limit", Num(20))
        search == Get(q, "search", Str(<<>>))
        status == Get(q, "status", Null)
        companyId == Or(Get(q, "company_id", Undefined), reqCompanyId)
        searchFilter ==
            IF Truthy(search)
            THEN <<AnyOf(<<Tok("ct_name", "ILIKE", 4),
                           Tok("ct_phone_number", "ILIKE", 4),
                           Tok("ct_email", "ILIKE", 4)>>)>>
            ELSE <<>>
        paramIndex == IF Truthy(search) THEN Incremented(4) ELSE 4
        statusOn == ~IsNull(status) /\ ~isNaN(status)
        statusFilter ==
            IF statusOn
            THEN <<ExistsSession(<<Tok("s2_company_id", "=", 1),
                                   Tok("s2_status", "=", paramIndex)>>)>>
            ELSE <<>>
        tenant == <<AnyOf(<<Tok("s_company_id", "=", 1)>>)>>
        statusParam == IF ~IsNull(status) THEN <<parseInt(status)>> ELSE <<>>
    IN  Plan(Select("contact_sessions", tenant \o searchFilter \o statusFilter,
                    OrderBy("last_activity", TRUE), 2, 3),
             <<companyId, parseInt(limit), Offset(page, limit)>>
             \o (IF Truthy(search) THEN <<Wild(search.str)>> ELSE <<>>)
             \o (IF statusOn THEN <<parseInt(status)>> ELSE <<>>),
             Count("contact_sessions",
                   tenant
                   \o Replace(searchFilter, paramIndex - 1, 2)
                   \o Replace(statusFilter, paramIndex, IF Truthy(search) THEN 3 ELSE 2)),
             IF Truthy(search)
             THEN <<companyId, Wild(search.str)>> \o statusParam
             ELSE <<companyId>> \o statusParam,
             page, limit)

\* GET /api/stock: the optional filters in the order the handler tests them
StockFilters ==
    << [name |-> "brand", col |-> "MARCA", op |-> "ILIKE"],
       [name |-> "model", col |-> "MODELO", op |-> "ILIKE"],
       [name |-> "category", col |-> "CATEGORIA", op |-> "ILIKE"],
       [name |-> "min_price", col |-> "PRECO", op |-> ">="],
       [name |-> "max_price", col |-> "PRECO", op |-> "<="],
       [name |-> "fuel_type", col |-> "COMBUSTIVEL", op |-> "ILIKE"],
       [name |-> "transmission", col |-> "TRANSMISSAO", op |-> "ILIKE"],
       [name |-> "location", col |-> "LOCAL_", op |-> "ILIKE"] >>

\* parseFloat(v) on the digit strings of the model
parseFloat(v) == parseInt(v)

\* the handler's chain of `if (filter) { filters.push(...); queryParams.push(...);
\* paramIndex++ }`, from filter k on
RECURSIVE StockBuild(_, _, _)
StockBuild(q, k, acc) ==
    IF k > Len(StockFilters) THEN acc
    ELSE LET f == StockFilters[k]
             v == Get(q, f.name, Str(<<>>))
         IN  IF Truthy(v)
             THEN StockBuild(q, k + 1,
                      [filters |-> Append(acc.filters,
                                          AnyOf(<<Tok(f.col, f.op, acc.paramIndex)>>)),
                       queryParams |-> Append(acc.queryParams,
                                              IF f.op = "ILIKE" THEN Wild(v.str)
                                              ELSE parseFloat(v)),
                       paramIndex |-> Incremented(acc.paramIndex)])
             ELSE StockBuild(q, k + 1, acc)

\* GET /api/stock, once the tenant's name is known
GetStock(q, companyName) ==
    LET page == Get(q, "page", Num(1))
        limit == Get(q, "limit", Num(20))
        built == StockBuild(q, 1,
                     [filters |-> <<>>,
                      queryParams |-> <<companyName, parseInt(limit), Offset(page, limit)>>,
                      paramIndex |-> 4])
        tenant == <<AnyOf(<<Tok("EMPRESA", "=", 1)>>)>>
        countParams == Slice(built.queryParams, built.paramIndex - 2)
    IN  Plan(Select("stock", tenant \o built.filters, OrderBy("created_at", TRUE), 2, 3),
             built.queryParams,
             Count("stock", tenant \o built.filters),
             countParams,
             page, limit)


---------------------------------------------------------------------------
(* The search routes and the by-id routes: the statements each handler     *)
(* sends, in order, as <<statement, parameters>> pairs.                    *)

Stmt(sql, params) == [sql |-> sql, params |-> params]

\* a length test that leaves the trimming out
SearchTooShortUntrimmed(q) ==
    LET searchQuery == Get(q, "q", Undefined)
    IN  ~Truthy(searchQuery) \/ Len(searchQuery.str) < 2

\* if (!searchQuery || searchQuery.trim().length < 2)
SearchTooShort(q) ==
    LET searchQuery == Get(q, "q", Undefined)
    IN  ~Truthy(searchQuery) \/ Len(Trim(searchQuery.str)) < 2

\* `%${searchQuery.trim()}%`
SearchTerm(q) == Wild(Trim(q["q"]))

\* GET /api/search/contacts
SearchContacts(q) ==
    LET limit == Get(q, "limit", Num(20))
        company_id == Get(q, "company_id", Undefined)
        companyFilter ==
            IF Truthy(company_id)
            THEN <<ExistsContactCompany(<<Tok("cc_company_id", "=", 3)>>)>>
            ELSE <<>>
    IN  <<Stmt(Select("contacts",
                      <<AnyOf(<<Tok("c_name", "ILIKE", 1), Tok("c_email", "ILIKE", 1),
                                Tok("c_phone_number", "ILIKE", 1)>>)>> \o companyFilter,
                      OrderBy("c_created_at", TRUE), 2, 0),
               <<SearchTerm(q), parseInt(limit)>>
               \o (IF Truthy(company_id) THEN <<parseInt(company_id)>> ELSE <<>>))>>

\* GET /api/search/conversations
SearchConversations(q, reqCompanyId) ==
    LET limit == Get(q, "limit", Num(20))
        session_status == Get(q, "session_status", Null)
        companyId == Or(Get(q, "company_id", Undefined), reqCompanyId)
        statusOn == ~IsNull(session_status) /\ ~isNaN(session_status)
        statusFilter ==
            IF statusOn THEN <<AnyOf(<<Tok("s_status", "=", 4)>>)>> ELSE <<>>
    IN  <<Stmt(Select("conversations",
                      <<AnyOf(<<Tok("s_company_id", "=", 1)>>),
                        AnyOf(<<Tok("c_content", "ILIKE", 2)>>)>> \o statusFilter,
                      OrderBy("c_created_at", TRUE), 3, 0),
               <<companyId, SearchTerm(q), parseInt(limit)>>
               \o (IF statusOn THEN <<parseInt(session_status)>> ELSE <<>>))>>

\* GET /api/search/leads
SearchLeads(q, reqCompanyId) ==
    LET limit == Get(q, "limit", Num(20))
        lead_source == Get(q, "lead_source", Null)
        channel == Get(q, "channel", Null)
        companyId == Or(Get(q, "company_id", Undefined), reqCompanyId)
        paramIndex == IF Truthy(lead_source) THEN Incremented(4) ELSE 4
        filters ==
            (IF Truthy(lead_source)
             THEN <<AnyOf(<<Tok("l_lead_source", "=", 4)>>)>> ELSE <<>>)
            \o (IF Truthy(channel)
                THEN <<AnyOf(<<Tok("l_channel", "=", paramIndex)>>)>> ELSE <<>>)
    IN  <<Stmt(Select("leads",
                      <<AnyOf(<<Tok("l_company_id", "=", 1)>>),
                        AnyOf(<<Tok("l_name", "ILIKE", 2), Tok("l_email", "ILIKE", 2),
                                Tok("l_phone_number", "ILIKE", 2),
                                Tok("l_location", "ILIKE", 2),
                                Tok("ct_name", "ILIKE", 2)>>)>> \o filters,
                      OrderBy("l_created_at", TRUE), 3, 0),
               <<companyId, SearchTerm(q), parseInt(limit)>>
               \o (IF Truthy(lead_source) THEN <<lead_source>> ELSE <<>>)
               \o (IF Truthy(channel) THEN <<channel>> ELSE <<>>))>>

\* GET /api/search/stock, once the tenant's name is known
SearchStock(q, companyName) ==
    LET limit == Get(q, "limit", Num(20))
    IN  <<Stmt(Select("stock",
                      <<AnyOf(<<Tok("EMPRESA", "=", 1)>>),
                        AnyOf(<<Tok("MARCA", "ILIKE", 2), Tok("MODELO", "ILIKE", 2),
                                Tok("CATEGORIA", "ILIKE", 2),
                                Tok("LOCAL_", "ILIKE", 2)>>)>>,
                      OrderBy("created_at", TRUE), 3, 0),
               <<companyName, SearchTerm(q), parseInt(limit)>>)>>

\* GET /api/search/global: three statements sent together (Promise.all), each
\* LIMIT 5; no relation of the data set has five rows, so the limit cuts nothing
SearchGlobal(q, reqCompanyId) ==
    LET companyId == Or(Get(q, "company_id", Undefined), reqCompanyId)
        searchTerm == SearchTerm(q)
    IN  <<Stmt(Select("contacts",
                      <<ExistsContactCompany(<<Tok("cc_company_id", "=", 1)>>),
                        AnyOf(<<Tok("c_name", "ILIKE", 2), Tok("c_email", "ILIKE", 2),
                                Tok("c_phone_number", "ILIKE", 2)>>)>>,
                      NoOrder, 0, 0),
               <<companyId, searchTerm>>),
          Stmt(Select("conversations",
                      <<AnyOf(<<Tok("s_company_id", "=", 1)>>),
                        AnyOf(<<Tok("c_content", "ILIKE", 2)>>)>>,
                      NoOrder, 0, 0),
               <<companyId, searchTerm>>),
          Stmt(Select("leads",
                      <<AnyOf(<<Tok("l_company_id", "=", 1)>>),
                        AnyOf(<<Tok("l_name", "ILIKE", 2), Tok("l_email", "ILIKE", 2),
                                Tok("l_phone_number", "ILIKE", 2)>>)>>,
                      NoOrder, 0, 0),
               <<companyId, searchTerm>>)>>

\* SELECT name FROM companies WHERE id = $1
CompanyByIdStmt(companyId) ==
    Stmt(Select("companies", <<AnyOf(<<Tok("c_id", "=", 1)>>)>>, NoOrder, 0, 0),
         <<companyId>>)

\* GET /api/sessions/:id: the statement that selects the session; the reads that
\* follow it for a session found select by the same $1 and add no session row
GetSessionById(id) ==
    <<Stmt(Select("sessions", <<AnyOf(<<Tok("s_id", "=", 1)>>)>>, NoOrder, 0, 0), <<id>>)>>

\* GET /api/conversations/:sessionId
GetConversationById(sessionId) ==
    <<Stmt(Select("sessions", <<AnyOf(<<Tok("s_id", "=", 1)>>)>>, NoOrder, 0, 0),
           <<sessionId>>)>>

\* GET /api/leads/:id
GetLeadById(id) ==
    <<Stmt(Select("leads", <<AnyOf(<<Tok("l_id", "=", 1)>>)>>, NoOrder, 0, 0), <<id>>)>>

\* GET /api/stock/:id
GetVehicleById(id) ==
    <<Stmt(Select("stock", <<AnyOf(<<Tok("id", "=", 1)>>)>>, NoOrder, 0, 0), <<id>>)>>

\* GET /api/conversations/:sessionId/messages
GetMessages(sessionId, q) ==
    LET limit == Get(q, "limit", Num(100))
        offset == Get(q, "offset", Num(0))
    IN  <<Stmt(Select("conversations", <<AnyOf(<<Tok("c_session_id", "=", 1)>>)>>,
                      OrderBy("c_created_at", FALSE), 2, 3),
               <<sessionId, parseInt(limit), parseInt(offset)>>),
          Stmt(Count("conversations", <<AnyOf(<<Tok("c_session_id", "=", 1)>>)>>),
               <<sessionId>>)>>

\* GET /api/conversations/:sessionId/knowledge
GetKnowledge(sessionId) ==
    <<Stmt(Select("knowledge_vault", <<AnyOf(<<Tok("kv_session_id", "=", 1)>>)>>,
                  OrderBy("kv_created_at", TRUE), 0, 0),
           <<sessionId>>)>>


---------------------------------------------------------------------------
(* Routes and middleware                                                   *)

ListRoutes ==
    {"GET /api/conversations", "GET /api/conversations/contacts", "GET /api/leads",
     "GET /api/leads/transferred", "GET /api/leads/discarded", "GET /api/sessions",
     "GET /api/stock"}

SearchRoutes ==
    {"GET /api/search/contacts", "GET /api/search/conversations",
     "GET /api/search/leads", "GET /api/search/stock", "GET /api/search/global"}

ByIdRoutes ==
    {"GET /api/sessions/:id", "GET /api/leads/:id", "GET /api/stock/:id",
     "GET /api/conversations/:sessionId", "GET /api/conversations/:sessionId/messages",
     "GET /api/conversations/:sessionId/knowledge"}

\* the routes registered with requireCompanyAccess
GuardedRoutes == ListRoutes \cup (SearchRoutes \ {"GET /api/search/contacts"})

\* the routes whose handler first reads the tenant's name from companies
CompanyNameRoutes == {"GET /api/stock", "GET /api/search/stock"}

\* jwt.verify(token, secret): the decoded payload, or the name of the error
\* it throws ("unverifiable" stands for a token that fails in another way
\* than by its form, signature or expiry)
jwtVerify(token) ==
    CASE token = "valid" -> [decoded |-> [sub |-> 7, email |-> <<"a">>, role |-> <<"b">>]]
      [] token \in {"malformed", "forged"} -> [error |-> "JsonWebTokenError"]
      [] token = "expired" -> [error |-> "TokenExpiredError"]
      [] OTHER -> [error |-> "NotBeforeError"]

authenticateTokenOneMessage(token) ==
    LET v == jwtVerify(token)
    IN  IF token = "none"
        THEN [status |-> 401, message |-> "Access token required", user |-> Undefined]
        ELSE IF "decoded" \in DOMAIN v
        THEN [status |-> 0, message |-> "",
              user |-> v.decoded @@ [id |-> v.decoded.sub, email |-> v.decoded.email]]
        ELSE IF v.error \in {"JsonWebTokenError", "TokenExpiredError"}
        THEN [status |-> 401, message |-> "Invalid token", user |-> Undefined]
        ELSE [status |-> 500, message |-> "Authentication failed", user |-> Undefined]

\* authenticateToken: the status and message it responds (status 0 when next()
\* is called) and the req.user it attaches; the payload's own claims come last
\* in req.user and so take precedence
authenticateToken(token) ==
    LET v == jwtVerify(token)
    IN  IF token = "none"
        THEN [status |-> 401, message |-> "Access token required", user |-> Undefined]
        ELSE IF "decoded" \in DOMAIN v
        THEN [status |-> 0, message |-> "",
              user |-> v.decoded @@ [id |-> v.decoded.sub, email |-> v.decoded.email]]
        ELSE IF v.error = "JsonWebTokenError"
        THEN [status |-> 401, message |-> "Invalid token", user |-> Undefined]
        ELSE IF v.error = "TokenExpiredError"
        THEN [status |-> 401, message |-> "Token expired", user |-> Undefined]
        ELSE [status |-> 500, message |-> "Authentication failed", user |-> Undefined]

\* optionalAuth: the values of req.user it may leave.  It runs after
\* authenticateToken, which set user; supabase.auth.getUser may or may not
\* know the token, and any error is swallowed
optionalAuth(token, user) ==
    LET v == jwtVerify(token)
    IN  IF token = "none" \/ "error" \in DOMAIN v THEN {user}
        ELSE {user, v.decoded @@ [id |-> 9, email |-> <<"b">>]}

requireCompanyAccessQueryOnly(params, q, body) ==
    LET companyId == Get(q, "company_id", Undefined)
    IN  IF ~Truthy(companyId)
        THEN [status |-> 400, companyId |-> Undefined]
        ELSE IF IsNaNValue(parseInt(companyId))
             THEN [status |-> 400, companyId |-> Undefined]
             ELSE [status |-> 0, companyId |-> parseInt(companyId)]

\* requireCompanyAccess: the status it responds (0 when next() is called) and
\* the req.companyId it attaches.  req.body is the object express.json() leaves
requireCompanyAccess(params, q, body) ==
    LET companyId ==
            Or(Or(Get(params, "companyId", Undefined), Get(q, "company_id", Undefined)),
               IF "company_id" \in DOMAIN body THEN body.company_id ELSE Undefined)
    IN  IF \/ ~Truthy(companyId)
           \/ companyId = Str(<<"n", "u", "l", "l">>)
           \/ companyId = Str(<<"u", "n", "d", "e", "f", "i", "n", "e", "d">>)
        THEN [status |-> 400, companyId |-> Undefined]
        ELSE IF IsNaNValue(parseInt(companyId))
             THEN [status |-> 400, companyId |-> Undefined]
             ELSE [status |-> 0, companyId |-> parseInt(companyId)]

---------------------------------------------------------------------------
(* Request slots                                                           *)

NoRequest == [ep |-> "", token |-> "", query |-> <<>>, id |-> <<>>, body |-> <<>>]

NoPagination ==
    [page |-> 0, limit |-> 0, total |-> 0, pages |-> 0,
     hasNext |-> FALSE, hasPrev |-> FALSE]

Idle ==
    [pc |-> "idle", req |-> NoRequest, companyId |-> Undefined,
     companyName |-> Undefined, rows |-> <<>>, status |-> 0,
     pagination |-> NoPagination, issued |-> <<>>, user |-> Undefined, message |-> "",
     raised |-> Undefined, detail |-> ""]

\* res.status(status).json(...) with no data
Respond(sl, status) == [sl EXCEPT !.pc = "done", !.status = status, !.rows = <<>>]

\* the handler's code from its entry to its first statement: the validation
\* of the search text and of the tenant identifier
Enter(sl) ==
    LET ep == sl.req.ep
        q == sl.req.query
        companyId == Or(Get(q, "company_id", Undefined), sl.companyId)
    IN  IF ep \in SearchRoutes /\ SearchTooShort(q) THEN Respond(sl, 400)
        ELSE IF ep \in GuardedRoutes /\ ~Truthy(companyId) THEN Respond(sl, 400)
        ELSE [sl EXCEPT !.pc =
                 IF ep \in CompanyNameRoutes THEN "company"
                 ELSE IF ep \in ListRoutes THEN "page"
                 ELSE IF ep \in SearchRoutes THEN "search"
                 ELSE "byid"]

\* a router without router.use(authenticateToken): the route's guard, then the
\* handler
DispatchWithoutIdentity(req) ==
    LET sl == [Idle EXCEPT !.req = req]
        guard == requireCompanyAccess(<<>>, req.query, req.body)
    IN  IF req.ep \in GuardedRoutes
        THEN IF guard.status # 0 THEN Respond(sl, guard.status)
             ELSE Enter([sl EXCEPT !.companyId = guard.companyId])
        ELSE Enter(sl)

\* router.use(authenticateToken), then the route's requireCompanyAccess, then
\* the handler.  No route with the guard has a companyId path parameter.
Dispatch(req) ==
    LET auth == authenticateToken(req.token)
        sl == [Idle EXCEPT !.req = req, !.user = auth.user]
        guard == requireCompanyAccess(<<>>, req.query, req.body)
    IN  IF auth.status # 0 THEN [Respond(sl, auth.status) EXCEPT !.message = auth.message]
        ELSE IF req.ep \in GuardedRoutes
             THEN IF guard.status # 0 THEN Respond(sl, guard.status)
                  ELSE Enter([sl EXCEPT !.companyId = guard.companyId])
             ELSE Enter(sl)

\* the query building of the list route a slot serves
ListPlan(sl) ==
    LET ep == sl.req.ep
        q == sl.req.query
    IN  CASE ep = "GET /api/conversations" -> GetConversations(q, sl.companyId)
          [] ep = "GET /api/conversations/contacts" -> GetContacts(q, sl.companyId)
          [] ep = "GET /api/leads" -> GetLeads(q, sl.companyId)
          [] ep = "GET /api/leads/transferred" -> GetTransferredLeads(q, sl.companyId)
          [] ep = "GET /api/leads/discarded" -> GetDiscardedLeads(q, sl.companyId)
          [] ep = "GET /api/sessions" -> GetSessions(q, sl.companyId)
          [] ep = "GET /api/stock" -> GetStock(q, sl.companyName)

\* the statements of the search or by-id route a slot serves
Statements(sl) ==
    LET ep == sl.req.ep
        q == sl.req.query
        id == Str(sl.req.id)
    IN  CASE ep = "GET /api/search/contacts" -> SearchContacts(q)
          [] ep = "GET /api/search/conversations" -> SearchConversations(q, sl.companyId)
          [] ep = "GET /api/search/leads" -> SearchLeads(q, sl.companyId)
          [] ep = "GET /api/search/stock" -> SearchStock(q, sl.companyName)
          [] ep = "GET /api/search/global" -> SearchGlobal(q, sl.companyId)
          [] ep = "GET /api/sessions/:id" -> GetSessionById(id)
          [] ep = "GET /api/leads/:id" -> GetLeadById(id)
          [] ep = "GET /api/stock/:id" -> GetVehicleById(id)
          [] ep = "GET /api/conversations/:sessionId" -> GetConversationById(id)
          [] ep = "GET /api/conversations/:sessionId/messages" -> GetMessages(id, q)
          [] ep = "GET /api/conversations/:sessionId/knowledge" -> GetKnowledge(id)

\* the entity a relation's rows stand for
RootEntity(rel) ==
    CASE rel \in {"sessions", "sessions_lateral"} -> "session"
      [] rel = "contact_sessions" -> "contact"
      [] rel = "leads" -> "lead"
      [] rel = "transferred_leads" -> "transfer"
      [] rel = "discarded_leads" -> "discard"
      [] rel = "stock" -> "vehicle"
      [] rel = "companies" -> "company"
      [] rel = "conversations" -> "message"
      [] rel = "knowledge_vault" -> "knowledge"
      [] rel = "contacts" -> "contact"

\* result.rows of a statement, as the entities the response carries
Items(sql, res) ==
    [i \in 1..Len(res.rows) |->
        [t |-> RootEntity(sql.rel), id |-> res.rows[i]] @@ res.cols[i]]

\* the statements of a handler run in order; the first error ends the handler
RECURSIVE RunAll(_, _)
RunAll(d, stmts) ==
    IF stmts = <<>> THEN {[error |-> FALSE, rows |-> <<>>, sent |-> 0, first |-> 0]}
    ELSE UNION { IF res.error
                 THEN {[error |-> TRUE, rows |-> <<>>, sent |-> 1, first |-> 0]}
                 ELSE { [error |-> rest.error,
                         rows |-> IF rest.error THEN <<>>
                                  ELSE Items(Head(stmts).sql, res) \o rest.rows,
                         sent |-> 1 + rest.sent,
                         first |-> Len(res.rows)]
                        : rest \in RunAll(d, Tail(stmts)) }
                 : res \in query(d, Head(stmts).sql, Head(stmts).params) }


---------------------------------------------------------------------------
(* The requests the model sends                                            *)


\* a query-string parameter that is absent or has one of the values
Opt(k, vals) == {<<>>} \cup {k :> v : v \in vals}

PageTexts == {DigitText(n) : n \in 1..MaxPage}

LimitTexts == {DigitText(n) : n \in 1..MaxLimit}

TenantTexts == {Txt1, Txt2}

\* tenant identifiers the guard or the handler turns down
BadTenantTexts ==
    {<<"x">>, <<"n", "u", "l", "l">>, <<"u", "n", "d", "e", "f", "i", "n", "e", "d">>,
     <<"3">>, <<"1", "x">>, <<" ">>}

SearchTexts == {<<"a">>, <<"a", "n">>}

StatusTexts == {<<"1">>, <<"x">>, <<>>}

QTexts == {<<>>, <<"a">>, <<" ", "a", " ">>, <<"a", "n">>, <<" ", "a", "n">>}

IdTexts == {<<"1">>, <<"2">>, <<"3">>, <<"4">>, <<"9">>}

Tokens == {"valid", "none", "malformed", "forged", "expired", "unverifiable"}

\* the filter parameters of GET /api/stock, each absent or present
StockFilterQueries ==
    { b @@ m @@ c @@ lo @@ hi @@ f @@ t @@ l :
        b \in Opt("brand", {<<"a">>}), m \in Opt("model", {<<"a">>}),
        c \in Opt("category", {<<"b">>}), lo \in Opt("min_price", {<<"1">>}),
        hi \in Opt("max_price", {<<"2">>}), f \in Opt("fuel_type", {<<"o">>}),
        t \in Opt("transmission", {<<"a">>}), l \in Opt("location", {<<"n">>}) }

\* the filter parameters each list route reads
FilterQueries(ep) ==
    CASE ep \in {"GET /api/conversations", "GET /api/conversations/contacts",
                 "GET /api/leads"} ->
           {f @@ g : f \in Opt("search", SearchTexts), g \in Opt("status", StatusTexts)}
      [] ep = "GET /api/leads/transferred" -> Opt("search", SearchTexts)
      [] ep = "GET /api/leads/discarded" -> {<<>>}
      [] ep = "GET /api/sessions" -> Opt("status", StatusTexts)
      [] ep = "GET /api/stock" -> StockFilterQueries

\* a request: its route, its bearer token, req.query, the path parameter and
\* req.body
Request(ep, token, q, id) ==
    [ep |-> ep, token |-> token, query |-> q, id |-> id, body |-> <<>>]

ListRequests ==
    UNION { { Request(ep, "valid", c @@ p @@ l @@ f, <<>>) :
                c \in Opt("company_id", TenantTexts) \ {<<>>},
                p \in Opt("page", PageTexts), l \in Opt("limit", LimitTexts),
                f \in FilterQueries(ep) }
            : ep \in ListRoutes }

\* the optional filters each search route reads
SearchFilterQueries(ep) ==
    CASE ep = "GET /api/search/leads" ->
           {f @@ g : f \in Opt("lead_source", {<<"a">>}), g \in Opt("channel", {<<"b">>})}
      [] ep = "GET /api/search/conversations" -> Opt("session_status", StatusTexts)
      [] OTHER -> {<<>>}

SearchRequests ==
    UNION { { Request(ep, "valid", c @@ s @@ f, <<>>) :
                c \in Opt("company_id", TenantTexts) \ {<<>>}, s \in Opt("q", QTexts),
                f \in SearchFilterQueries(ep) }
            : ep \in SearchRoutes }
    \cup { Request("GET /api/search/contacts", "valid", s, <<>>) : s \in Opt("q", QTexts) }

ByIdRequests ==
    { Request(ep, "valid", c, id) :
        ep \in ByIdRoutes, c \in Opt("company_id", TenantTexts), id \in IdTexts }

\* requests that exercise the middleware and the tenant validation
RefusedRequests ==
    { Request(ep, t, "company_id" :> Txt1, Txt1) :
        ep \in ListRoutes \cup SearchRoutes \cup ByIdRoutes, t \in Tokens \ {"valid"} }
    \cup { Request(ep, "valid", c @@ ("q" :> <<"a", "n">>), <<>>) :
             ep \in GuardedRoutes, c \in Opt("company_id", BadTenantTexts) }
    \cup { [Request(ep, "valid", c @@ ("q" :> <<"a", "n">>), <<>>)
               EXCEPT !.body = [company_id |-> b]] :
             ep \in GuardedRoutes, c \in Opt("company_id", {<<"n", "u", "l", "l">>}),
             b \in {Num(2), Num(0), Null, Str(Txt1), Str(<<"x">>)} }

Requests == ListRequests \cup SearchRequests \cup ByIdRequests \cup RefusedRequests


---------------------------------------------------------------------------
(* The handlers, one action per step between two awaits                    *)

\* pagination: { page, limit, total, pages, hasNext, hasPrev }
Pagination(page, limit, total) ==
    [page |-> page, limit |-> limit, total |-> total,
     pages |-> MathCeilDiv(total, limit),
     hasNext |-> page < MathCeilDiv(total, limit),
     hasPrev |-> page > 1]

\* a request arrives and runs through the middleware to the handler's first await
Receive(r) ==
    /\ reqs[r].pc = "idle"
    /\ \E req \in Requests :
           LET sl == Dispatch(req)
           IN  IF req.ep = "GET /api/search/contacts" /\ sl.message = ""
               THEN \E u \in optionalAuth(req.token, sl.user) :
                        reqs' = [reqs EXCEPT ![r] = [sl EXCEPT !.user = u]]
               ELSE reqs' = [reqs EXCEPT ![r] = sl]
    /\ UNCHANGED <<db, listing, returned>>

\* SELECT name FROM companies WHERE id = $1, and the handler's 404
CompanyLookup(r) ==
    LET sl == reqs[r]
        companyId == Or(Get(sl.req.query, "company_id", Undefined), sl.companyId)
        stmt == CompanyByIdStmt(companyId)
    IN  /\ sl.pc = "company"
        /\ \E res \in query(db, stmt.sql, stmt.params) :
               reqs' = [reqs EXCEPT ![r] =
                   LET sent == [sl EXCEPT !.issued = Append(@, stmt)]
                   IN  IF res.error THEN Respond(sent, 500)
                       ELSE IF Len(res.rows) = 0 THEN Respond(sent, 404)
                       ELSE [sent EXCEPT
                               !.companyName =
                                   Str((CHOOSE c \in db.companies : c.id = res.rows[1]).name),
                               !.pc = IF sl.req.ep \in ListRoutes THEN "page" ELSE "search"]]
        /\ UNCHANGED <<db, listing, returned>>

\* the page statement of a list route
PageQuery(r) ==
    LET sl == reqs[r]
        plan == ListPlan(sl)
    IN  /\ sl.pc = "page"
        /\ \E res \in query(db, plan.pageSql, plan.pageParams) :
               reqs' = [reqs EXCEPT ![r] =
                   LET sent == [sl EXCEPT !.issued = Append(@, Stmt(plan.pageSql, plan.pageParams))]
                   IN  IF res.error THEN Respond(sent, 500)
                       ELSE [sent EXCEPT !.rows = Items(plan.pageSql, res),
                                         !.pc = "count"]]
        /\ UNCHANGED <<db, listing, returned>>

\* the count statement of a list route and the response
CountQuery(r) ==
    LET sl == reqs[r]
        plan == ListPlan(sl)
    IN  /\ sl.pc = "count"
        /\ \E res \in query(db, plan.countSql, plan.countParams) :
               reqs' = [reqs EXCEPT ![r] =
                   LET sent == [sl EXCEPT !.issued = Append(@, Stmt(plan.countSql, plan.countParams))]
                   IN  IF res.error THEN Respond(sent, 500)
                       ELSE [sent EXCEPT
                               !.pc = "done", !.status = 200,
                               !.pagination = Pagination(plan.page.num, plan.limit.num, res.total)]]
        /\ UNCHANGED <<db, listing, returned>>

\* the statements of handler sl, sent in order, and its response; notFound
\* tells whether an empty first result is answered 404
Serve(sl, notFound) ==
    LET stmts == Statements(sl)
    IN  { LET sent == [sl EXCEPT !.issued = @ \o SubSeq(stmts, 1, out.sent)]
          IN  IF out.error THEN Respond(sent, 500)
              ELSE IF notFound /\ out.first = 0 THEN Respond(sent, 404)
              ELSE [sent EXCEPT !.pc = "done", !.status = 200, !.rows = out.rows]
          : out \in RunAll(db, stmts) }

\* a by-id route
ById(r) ==
    /\ reqs[r].pc = "byid"
    /\ \E sl \in Serve(reqs[r], reqs[r].req.ep \in
                         {"GET /api/sessions/:id", "GET /api/leads/:id",
                          "GET /api/stock/:id", "GET /api/conversations/:sessionId"}) :
           reqs' = [reqs EXCEPT ![r] = sl]
    /\ UNCHANGED <<db, listing, returned>>

\* a search route
Search(r) ==
    /\ reqs[r].pc = "search"
    /\ \E sl \in Serve(reqs[r], FALSE) : reqs' = [reqs EXCEPT ![r] = sl]
    /\ UNCHANGED <<db, listing, returned>>

\* the response is sent and the slot is free again
Complete(r) ==
    /\ reqs[r].pc = "done"
    /\ reqs' = [reqs EXCEPT ![r] = Idle]
    /\ UNCHANGED <<db, listing, returned>>

NoListing == [ep |-> "", query |-> <<>>]

NoResponse == [status |-> 0, rows |-> <<>>, pagination |-> NoPagination]

Init ==
    /\ db = DataSet
    /\ reqs = [r \in {1} |-> Idle]
    /\ listing = NoListing
    /\ returned = [p \in 1..MaxPage |-> NoResponse]

Next ==
    \/ \E r \in DOMAIN reqs : Receive(r)
    \/ \E r \in DOMAIN reqs : CompanyLookup(r)
    \/ \E r \in DOMAIN reqs : PageQuery(r)
    \/ \E r \in DOMAIN reqs : CountQuery(r)
    \/ \E r \in DOMAIN reqs : ById(r)
    \/ \E r \in DOMAIN reqs : Search(r)
    \/ \E r \in DOMAIN reqs : Complete(r)

Spec == Init /\ [][Next]_vars


---------------------------------------------------------------------------
(* Paging through one listing: a client fixes a list route and its filters *)
(* and requests its pages, up to two at a time; `returned` keeps the       *)
(* response to each page.                                                  *)

\* the filters of the listings paged through
PagedFilterQueries(ep) ==
    IF ep = "GET /api/stock" THEN Opt("brand", {<<"a">>}) ELSE FilterQueries(ep)

Listings ==
    UNION { { [ep |-> ep, query |-> c @@ l @@ f] :
                c \in Opt("company_id", TenantTexts) \ {<<>>},
                l \in Opt("limit", LimitTexts), f \in PagedFilterQueries(ep) }
            : ep \in ListRoutes }

StartListing ==
    /\ listing = NoListing
    /\ listing' \in Listings
    /\ UNCHANGED <<db, reqs, returned>>

\* the page a slot serves (0 when it has no page parameter)
PageOf(sl) == IF "page" \in DOMAIN sl.req.query THEN DecValue(sl.req.query["page"]) ELSE 0

\* the client asks for a page it has no response to and is not waiting for
ReceivePage(r) ==
    /\ listing # NoListing
    /\ reqs[r].pc = "idle"
    /\ \E p \in 1..MaxPage :
           /\ returned[p] = NoResponse
           /\ \A o \in DOMAIN reqs : PageOf(reqs[o]) # p
           /\ reqs' = [reqs EXCEPT ![r] =
                  Dispatch(Request(listing.ep, "valid",
                                   ("page" :> DigitText(p)) @@ listing.query, <<>>))]
    /\ UNCHANGED <<db, listing, returned>>

\* the client receives the response to a page
Collect(r) ==
    /\ reqs[r].pc = "done"
    /\ returned' = [returned EXCEPT ![PageOf(reqs[r])] =
           [status |-> reqs[r].status, rows |-> reqs[r].rows,
            pagination |-> reqs[r].pagination]]
    /\ reqs' = [reqs EXCEPT ![r] = Idle]
    /\ UNCHANGED <<db, listing>>

InitPages ==
    /\ db = DataSet
    /\ reqs = [r \in {1, 2} |-> Idle]
    /\ listing = NoListing
    /\ returned = [p \in 1..MaxPage |-> NoResponse]

NextPages ==
    \/ StartListing
    \/ \E r \in DOMAIN reqs : ReceivePage(r)
    \/ \E r \in DOMAIN reqs : CompanyLookup(r)
    \/ \E r \in DOMAIN reqs : PageQuery(r)
    \/ \E r \in DOMAIN reqs : CountQuery(r)
    \/ \E r \in DOMAIN reqs : Collect(r)

SpecPages == InitPages /\ [][NextPages]_vars


---------------------------------------------------------------------------
(* Writes and failures: the deletion of a tenant, the update of a session's *)
(* status, the rows the messaging service inserts while the API serves     *)
(* requests, and statements and request bodies that fail.                  *)

MaxInserts == 1

\* the requests on tenants, on a session's status and on the test endpoint.
\* req.body.status is absent, null, a string, or a number in or out of 0..4; a
\* body that is not JSON is given by the message of the parser's error
WriteRequests ==
    LET CompanyIdTexts == {<<"1">>, <<"3">>, <<"9">>, <<"x">>}
        SessionIdTexts == {<<"1">>, <<"9">>, <<"x">>}
        StatusBodies ==
            {<<>>} \cup { [status |-> v] :
                              v \in {Null, Str(<<"2">>), Num(-1), Num(0), Num(4), Num(5)} }
    IN  { Request(ep, "valid", <<>>, id) :
            ep \in {"GET /api/companies/:id", "DELETE /api/companies/:id"},
            id \in CompanyIdTexts }
        \cup { [Request("PUT /api/sessions/:id/status", "valid", <<>>, <<"1">>)
                   EXCEPT !.body = b] : b \in StatusBodies }
        \cup { [Request("PUT /api/sessions/:id/status", "valid", <<>>, id)
                   EXCEPT !.body = [status |-> Num(0)]] : id \in SessionIdTexts }
        \cup { Request("GET /api/sessions/:id", "valid", <<>>, id) : id \in SessionIdTexts }
        \cup { Request("DELETE /api/companies/:id", "none", <<>>, <<"3">>),
               Request("GET /api/conversations/test", "valid", <<>>, <<>>) }
        \cup { [Request("PUT /api/sessions/:id/status", "valid", <<>>, <<"1">>)
                   EXCEPT !.body = [malformed |-> m]] : m \in {"m1", "m2"} }

\* an Error object
Err(code, name, message, status) ==
    [code |-> code, name |-> name, message |-> message, status |-> status, stack |-> "st"]

\* the errors a statement may throw whatever it is: the connection is refused,
\* or the pool gives no connection in time (an error without code)
StorageErrors ==
    {Err("ECONNREFUSED", "Error", "m1", 0), Err("", "Error", "m1", 0), Err("", "Error", "m2", 0)}

\* errorHandler: the status and body it sends
errorHandler(err) ==
    LET NODE_ENV == "production"
        default == [message |-> IF err.message # "" THEN err.message
                                ELSE "Internal Server Error",
                    status |-> IF err.status # 0 THEN err.status ELSE 500]
        connection == IF err.code \in {"ECONNREFUSED", "ENOTFOUND"}
                      THEN [message |-> "Database connection failed", status |-> 503]
                      ELSE default
        postgres == CASE err.code = "23505" ->
                           [message |-> "Resource already exists", status |-> 409]
                      [] err.code = "23503" ->
                           [message |-> "Referenced resource not found", status |-> 400]
                      [] err.code = "23514" ->
                           [message |-> "Invalid data provided", status |-> 400]
                      [] err.code = "42P01" ->
                           [message |-> "Database schema error", status |-> 500]
                      [] OTHER -> connection
        jwt == IF err.name = "JsonWebTokenError"
               THEN [message |-> "Invalid token", status |-> 401] ELSE postgres
        expired == IF err.name = "TokenExpiredError"
                   THEN [message |-> "Token expired", status |-> 401] ELSE jwt
        error == IF err.name = "ValidationError"
                 THEN [message |-> "Validation failed", status |-> 400] ELSE expired
    IN  [status |-> error.status, message |-> error.message,
         detail |-> IF NODE_ENV = "development" THEN err.stack ELSE ""]

\* the catch block of a handler: 500 with the handler's own message, to which
\* the test endpoint appends error.message
Catch(sl, error) ==
    [Respond(sl, 500) EXCEPT
        !.raised = error,
        !.message =
            CASE sl.req.ep = "GET /api/companies/:id" -> "Failed to fetch company"
              [] sl.req.ep = "DELETE /api/companies/:id" -> "Failed to delete company"
              [] sl.req.ep = "PUT /api/sessions/:id/status" -> "Failed to update session status"
              [] sl.req.ep = "GET /api/sessions/:id" -> "Failed to fetch session details"
              [] sl.req.ep = "POST /api/conversations/:sessionId/knowledge" ->
                   "Failed to create knowledge entry"
              [] sl.req.ep = "GET /api/conversations/contacts/:contactId/knowledge" ->
                   "Failed to fetch contact knowledge vault data"
              [] sl.req.ep = "GET /api/conversations/test" -> "Test endpoint failed: ",
        !.detail = IF sl.req.ep = "GET /api/conversations/test" THEN error.message ELSE ""]

StatusOutOfRangeAbove(status) == status.num > 4

\* status < 0 || status > 4
StatusOutOfRange(status) == status.num < 0 \/ status.num > 4

\* the handler's code from its entry to its first statement; a number of the
\* model is an integer, so Number.isInteger(status) is IsNum(status)
EnterWrite(sl) ==
    LET ep == sl.req.ep
        id == Str(sl.req.id)
        status == IF "status" \in DOMAIN sl.req.body THEN sl.req.body.status ELSE Undefined
    IN  CASE ep \in {"GET /api/companies/:id", "DELETE /api/companies/:id"} ->
               IF ~Truthy(id) \/ isNaN(id) THEN Respond(sl, 400)
               ELSE [sl EXCEPT !.pc = IF ep = "GET /api/companies/:id" THEN "fetch" ELSE "check"]
          [] ep = "PUT /api/sessions/:id/status" ->
               IF ~Truthy(id) \/ "undefined" \in DOMAIN status THEN Respond(sl, 400)
               ELSE IF ~IsNum(status) \/ StatusOutOfRange(status)
                    THEN Respond(sl, 400)
                    ELSE [sl EXCEPT !.pc = "update"]
          [] ep = "GET /api/sessions/:id" ->
               IF ~Truthy(id) THEN Respond(sl, 400) ELSE [sl EXCEPT !.pc = "read"]
          [] ep = "GET /api/conversations/test" -> [sl EXCEPT !.pc = "test"]

\* a request arrives: express.json(), whose error goes to errorHandler, then
\* router.use(authenticateToken), then the handler
ReceiveWrite(r) ==
    /\ reqs[r].pc = "idle"
    /\ \E req \in WriteRequests :
           reqs' = [reqs EXCEPT ![r] =
               LET auth == authenticateToken(req.token)
                   sl == [Idle EXCEPT !.req = req, !.user = auth.user]
                   parse == Err("", "SyntaxError", req.body.malformed, 400)
                   res == errorHandler(parse)
               IN  IF "malformed" \in DOMAIN req.body
                   THEN [Respond([Idle EXCEPT !.req = req], res.status) EXCEPT
                            !.raised = parse, !.message = res.message,
                            !.detail = res.detail]
                   ELSE IF auth.status # 0
                   THEN [Respond(sl, auth.status) EXCEPT !.message = auth.message]
                   ELSE EnterWrite(sl)]
    /\ UNCHANGED <<db, listing, returned>>

\* the statement a handler awaits throws, and its catch block answers
StorageFails(r) ==
    /\ reqs[r].pc \in {"fetch", "check", "delete", "update", "read", "test",
                       "session", "insert", "knowledge"}
    /\ \E error \in StorageErrors : reqs' = [reqs EXCEPT ![r] = Catch(reqs[r], error)]
    /\ UNCHANGED <<db, listing, returned>>

\* GET /api/conversations/test: SELECT COUNT(*) as total FROM contacts
TestEndpoint(r) ==
    /\ reqs[r].pc = "test"
    /\ reqs' = [reqs EXCEPT ![r] =
           [reqs[r] EXCEPT !.pc = "done", !.status = 200, !.message = "Test endpoint working",
                           !.rows = <<[t |-> "test",
                                       total_contacts |-> Cardinality(db.contacts)]>>]]
    /\ UNCHANGED <<db, listing, returned>>

\* GET /api/companies/:id: SELECT ... FROM companies WHERE id = $1.  The engine
\* takes the text of a path parameter as a row identifier when it is a number
GetCompany(r) ==
    LET sl == reqs[r]
        found == {c \in db.companies : c.id = DecValue(sl.req.id)}
    IN  /\ sl.pc = "fetch"
        /\ reqs' = [reqs EXCEPT ![r] =
               IF ~AllDigits(sl.req.id) THEN Catch(sl, Err("22P02", "error", "m1", 0))
               ELSE IF found = {} THEN Respond(sl, 404)
               ELSE [sl EXCEPT !.pc = "done", !.status = 200,
                               !.rows = <<[t |-> "company", id |-> DecValue(sl.req.id)]>>]]
        /\ UNCHANGED <<db, listing, returned>>

\* the check statement of DELETE /api/companies/:id: one row of three counts
DependentCounts(d, id) ==
    [conversations |-> Cardinality({c \in d.conversations : c.company_id = id}),
     leads |-> Cardinality({l \in d.leads : l.company_id = id}),
     sessions |-> Cardinality({s \in d.sessions : s.company_id = id})]

totalRecordsWithoutSessions(counts) == counts.conversations + counts.leads

totalRecords(counts) == counts.conversations + counts.leads + counts.sessions

\* DELETE /api/companies/:id up to its second await: the check and the 409
DeleteCheck(r) ==
    LET sl == reqs[r]
        counts == DependentCounts(db, DecValue(sl.req.id))
    IN  /\ sl.pc = "check"
        /\ reqs' = [reqs EXCEPT ![r] =
               IF ~AllDigits(sl.req.id) THEN Catch(sl, Err("22P02", "error", "m1", 0))
               ELSE IF totalRecords(counts) > 0
                    THEN [Respond(sl, 409) EXCEPT !.rows = <<counts>>]
                    ELSE [sl EXCEPT !.pc = "delete"]]
        /\ UNCHANGED <<db, listing, returned>>

\* DELETE FROM companies WHERE id = $1 RETURNING id, and the response.  The
\* statement is sent with query, on its own: whether the engine refuses to
\* delete a row that others refer to depends on constraints the repository
\* does not declare, so both outcomes are possible when such rows exist.
DeleteCompany(r) ==
    LET sl == reqs[r]
        id == DecValue(sl.req.id)
        found == {c \in db.companies : c.id = id}
        referenced ==
            \E x \in db.conversations \cup db.leads \cup db.sessions \cup db.transferred_leads
                      \cup db.knowledge_vault \cup db.contact_company : x.company_id = id
    IN  /\ sl.pc = "delete"
        /\ \/ /\ found = {}
              /\ reqs' = [reqs EXCEPT ![r] = Respond(sl, 404)]
              /\ db' = db
           \/ /\ found # {}
              /\ reqs' = [reqs EXCEPT ![r] = [Respond(sl, 200) EXCEPT !.rows = <<>>]]
              /\ db' = [db EXCEPT !.companies = @ \ found]
           \/ /\ found # {}
              /\ referenced
              /\ reqs' = [reqs EXCEPT ![r] = Catch(sl, Err("23503", "error", "m1", 0))]
              /\ db' = db
        /\ UNCHANGED <<listing, returned>>

\* UPDATE sessions SET status = $1 WHERE id = $2 RETURNING id, status, created_at
UpdateStatus(r) ==
    LET sl == reqs[r]
        id == DecValue(sl.req.id)
        found == {s \in db.sessions : s.id = id}
    IN  /\ sl.pc = "update"
        /\ IF ~AllDigits(sl.req.id)
           THEN reqs' = [reqs EXCEPT ![r] = Catch(sl, Err("22P02", "error", "m1", 0))]
                /\ db' = db
           ELSE IF found = {}
           THEN reqs' = [reqs EXCEPT ![r] = Respond(sl, 404)] /\ db' = db
           ELSE /\ db' = [db EXCEPT !.sessions =
                            (@ \ found) \cup
                            {[s EXCEPT !.status = sl.req.body.status.num] : s \in found}]
                /\ reqs' = [reqs EXCEPT ![r] =
                       [sl EXCEPT !.pc = "done", !.status = 200,
                                  !.rows = <<[t |-> "session", id |-> id,
                                              status |-> sl.req.body.status.num]>>]]
        /\ UNCHANGED <<listing, returned>>

\* GET /api/sessions/:id: the id and status columns of its first statement
ReadSession(r) ==
    LET sl == reqs[r]
        found == {s \in db.sessions : s.id = DecValue(sl.req.id)}
    IN  /\ sl.pc = "read"
        /\ reqs' = [reqs EXCEPT ![r] =
               IF ~AllDigits(sl.req.id) THEN Catch(sl, Err("22P02", "error", "m1", 0))
               ELSE IF found = {} THEN Respond(sl, 404)
               ELSE [sl EXCEPT !.pc = "done", !.status = 200,
                               !.rows = LET s == CHOOSE x \in found : TRUE
                                        IN  <<[t |-> "session", id |-> s.id,
                                               status |-> s.status]>>]]
        /\ UNCHANGED <<db, listing, returned>>

\* the messaging service, which shares the database with the API, inserts a
\* session, a lead or a message for a tenant it finds in companies; the writes
\* the model follows are those for the tenant that is new to the data set
InsertDependent ==
    LET n == Cardinality(db.sessions) + Cardinality(db.leads) + Cardinality(db.conversations)
        NewRows(c) ==
            {[table |-> "sessions",
              row |-> [id |-> n, company_id |-> c, contact_id |-> 1, status |-> 0,
                       created_at |-> 5]],
             [table |-> "leads",
              row |-> [id |-> n, company_id |-> c, contact_id |-> 1, name |-> Ana,
                       email |-> <<"a", "1">>, phone_number |-> <<"1", "2">>,
                       location |-> <<"o">>, lead_source |-> <<"a">>, channel |-> <<"b">>,
                       status |-> 0, created_at |-> 5]]}
            \cup { [table |-> "conversations",
                    row |-> [id |-> n, company_id |-> c, session_id |-> s.id,
                             content |-> <<"a">>, sender |-> 0, created_at |-> 5]]
                   : s \in {x \in db.sessions : x.company_id = c} }
    IN  /\ n < Cardinality(Sessions) + Cardinality(Leads) + Cardinality(Messages) + MaxInserts
        /\ \E c \in db.companies \ Companies : \E new \in NewRows(c.id) :
               db' = [db EXCEPT ![new.table] = @ \cup {new.row}]
        /\ UNCHANGED <<reqs, listing, returned>>

\* the data set and a third tenant that no row refers to
InitWrites ==
    /\ db = [DataSet EXCEPT !.companies = @ \cup {[id |-> 3, name |-> <<"o">>]}]
    /\ reqs = [r \in {1, 2} |-> Idle]
    /\ listing = NoListing
    /\ returned = [p \in 1..MaxPage |-> NoResponse]

NextWrites ==
    \/ \E r \in DOMAIN reqs : ReceiveWrite(r)
    \/ \E r \in DOMAIN reqs : GetCompany(r)
    \/ \E r \in DOMAIN reqs : DeleteCheck(r)
    \/ \E r \in DOMAIN reqs : DeleteCompany(r)
    \/ \E r \in DOMAIN reqs : UpdateStatus(r)
    \/ \E r \in DOMAIN reqs : ReadSession(r)
    \/ \E r \in DOMAIN reqs : TestEndpoint(r)
    \/ \E r \in DOMAIN reqs : StorageFails(r)
    \/ \E r \in DOMAIN reqs : Complete(r)
    \/ InsertDependent

SpecWrites == InitWrites /\ [][NextWrites]_vars


---------------------------------------------------------------------------
(* The realtime metrics: the growth figures computed from the row of       *)
(* counts the statement returns.  Percentages are kept in hundredths.      *)

MaxCount == 6

calculateGrowthTruncated(today, yesterday) ==
    LET t == DecValue(today.str)
        y == DecValue(yesterday.str)
    IN  IF y > 0 THEN (10000 * (t - y)) \div y
        ELSE IF t > 0 THEN 10000 ELSE 0

\* Math.round(growth * 100) / 100, in hundredths, where growth is
\* (today - yesterday) / yesterday * 100 when yesterday > 0 and else 100 or 0.
\* The counts are the texts the driver returns for COUNT(...); the comparison
\* and the arithmetic convert them to numbers.  Math.round(x) is the floor of
\* x + 1/2
calculateGrowth(today, yesterday) ==
    LET t == DecValue(today.str)
        y == DecValue(yesterday.str)
        MathRound(n, d) == (2 * n + d) \div (2 * d)
    IN  IF y > 0 THEN MathRound(10000 * (t - y), y)
        ELSE IF t > 0 THEN 10000 ELSE 0

\* GET /api/metrics/realtime from the result of its statement on: the figures
\* of the response
Realtime(r) ==
    LET metrics == db.metrics
    IN  /\ reqs[r].pc = "idle"
        /\ reqs' = [reqs EXCEPT ![r] =
               [Idle EXCEPT
                  !.pc = "done", !.status = 200,
                  !.req = Request("GET /api/metrics/realtime", "valid",
                                  "company_id" :> Txt1, <<>>),
                  !.rows = <<[today |-> [conversations |-> parseInt(metrics.conversations_today),
                                         transfers |-> parseInt(metrics.transfers_today)],
                              yesterday |->
                                  [conversations |-> parseInt(metrics.conversations_yesterday),
                                   transfers |-> parseInt(metrics.transfers_yesterday)],
                              growth |->
                                  [conversations |->
                                       calculateGrowth(metrics.conversations_today,
                                                       metrics.conversations_yesterday),
                                   transfers |->
                                       calculateGrowth(metrics.transfers_today,
                                                       metrics.transfers_yesterday)]]>>]]
        /\ UNCHANGED <<db, listing, returned>>

\* the row of counts is any row of counts up to MaxCount
InitGrowth ==
    /\ db \in { [metrics |->
                   [conversations_today |-> Str(DigitText(a)),
                    conversations_yesterday |-> Str(DigitText(b)),
                    transfers_today |-> Str(DigitText(c)),
                    transfers_yesterday |-> Str(DigitText(d))]] :
                a \in 0..MaxCount, b \in 0..MaxCount, c \in 0..MaxCount, d \in 0..MaxCount }
    /\ reqs = [r \in {1} |-> Idle]
    /\ listing = NoListing
    /\ returned = [p \in 1..MaxPage |-> NoResponse]

NextGrowth ==
    \/ \E r \in DOMAIN reqs : Realtime(r)
    \/ \E r \in DOMAIN reqs : Complete(r)

SpecGrowth == InitGrowth /\ [][NextGrowth]_vars


---------------------------------------------------------------------------
(* The knowledge vault: POST /api/conversations/:sessionId/knowledge and   *)
(* GET /api/conversations/contacts/:contactId/knowledge.                   *)

\* the entries the requests may add to those of the data set
MaxEntries == 1

Key1 == Str(<<"a">>)

KnowledgeRequests ==
    LET Post(token, id, b) ==
            [Request("POST /api/conversations/:sessionId/knowledge", token, <<>>, id)
                EXCEPT !.body = b]
        Entry == [key |-> Key1, value |-> Str(<<"o">>)]
        Incomplete == {[key |-> Key1], [key |-> Key1, value |-> Str(<<>>)],
                       [key |-> Num(0), value |-> Key1]}
    IN  { Post("valid", id, Entry) : id \in {<<"1">>, <<"3">>, <<"4">>, <<"9">>, <<"x">>} }
        \cup { Post("valid", id, b) : id \in {<<"1">>, <<"9">>}, b \in Incomplete }
        \cup { Post("none", <<"1">>, Entry) }
        \cup { Request("GET /api/conversations/contacts/:contactId/knowledge", "valid",
                       "company_id" :> p[2], p[1]) :
                 p \in {<<Txt1, Txt1>>, <<Txt2, Txt2>>, <<Txt2, Txt1>>,
                        <<<<"x">>, Txt1>>, <<Txt1, <<"1", "x">>>>} }
        \cup { [Request("PUT /api/sessions/:id/status", "valid", <<>>, <<"1">>)
                   EXCEPT !.body = [status |-> Num(4)]] }

\* a request arrives: router.use(authenticateToken), the route's
\* requireCompanyAccess, then the handler up to its first statement
ReceiveKnowledge(r) ==
    /\ reqs[r].pc = "idle"
    /\ \E req \in KnowledgeRequests :
           reqs' = [reqs EXCEPT ![r] =
               LET auth == authenticateToken(req.token)
                   sl == [Idle EXCEPT !.req = req, !.user = auth.user]
                   guard == requireCompanyAccess(<<>>, req.query, req.body)
                   key == IF "key" \in DOMAIN req.body THEN req.body.key ELSE Undefined
                   value == IF "value" \in DOMAIN req.body THEN req.body.value ELSE Undefined
                   companyId == Or(Get(req.query, "company_id", Undefined), guard.companyId)
               IN  IF auth.status # 0
                   THEN [Respond(sl, auth.status) EXCEPT !.message = auth.message]
                   ELSE CASE req.ep = "POST /api/conversations/:sessionId/knowledge" ->
                               IF ~Truthy(Str(req.id)) \/ ~Truthy(key) \/ ~Truthy(value)
                               THEN Respond(sl, 400)
                               ELSE [sl EXCEPT !.pc = "session"]
                          [] req.ep = "GET /api/conversations/contacts/:contactId/knowledge" ->
                               IF guard.status # 0 THEN Respond(sl, guard.status)
                               ELSE IF ~Truthy(Str(req.id)) \/ ~Truthy(companyId)
                               THEN Respond(sl, 400)
                               ELSE [sl EXCEPT !.pc = "knowledge",
                                               !.companyId = guard.companyId]
                          [] OTHER -> EnterWrite(sl)]
    /\ UNCHANGED <<db, listing, returned>>

\* SELECT contact_id, company_id FROM sessions WHERE id = $1, and the 404
SessionInfo(r) ==
    LET sl == reqs[r]
        found == {s \in db.sessions : s.id = DecValue(sl.req.id)}
    IN  /\ sl.pc = "session"
        /\ reqs' = [reqs EXCEPT ![r] =
               IF ~AllDigits(sl.req.id) THEN Catch(sl, Err("22P02", "error", "m1", 0))
               ELSE IF found = {} THEN Respond(sl, 404)
               ELSE [sl EXCEPT !.pc = "insert",
                               !.rows = LET s == CHOOSE x \in found : TRUE
                                        IN  <<[contact_id |-> s.contact_id,
                                               company_id |-> s.company_id]>>]]
        /\ UNCHANGED <<db, listing, returned>>

KnowledgeRowOfTenantOne(sessionResult, sessionId, key, value) ==
    [contact_id |-> sessionResult[1].contact_id, session_id |-> DecValue(sessionId),
     key |-> key.str, value |-> value.str, company_id |-> 1]

\* the columns INSERT INTO knowledge_vault (contact_id, session_id, key,
\* value, company_id) is given: [contact_id, sessionId, key, value, company_id]
KnowledgeRow(sessionResult, sessionId, key, value) ==
    [contact_id |-> sessionResult[1].contact_id, session_id |-> DecValue(sessionId),
     key |-> key.str, value |-> value.str, company_id |-> sessionResult[1].company_id]

\* the INSERT and the 201.  The table gives the row its id, the next of a
\* sequence, and its created_at, the time of the statement: no earlier than
\* that of the rows before it, and the same when both fall in one tick
InsertKnowledge(r) ==
    LET sl == reqs[r]
        ids == {k.id : k \in db.knowledge_vault}
        times == {k.created_at : k \in db.knowledge_vault}
        id == 1 + CHOOSE i \in ids : \A j \in ids : j <= i
        now == CHOOSE t \in times : \A u \in times : u <= t
    IN  /\ sl.pc = "insert"
        /\ Cardinality(db.knowledge_vault) < Cardinality(KnowledgeVault) + 1 + MaxEntries
        /\ \E created_at \in {now, now + 1} :
             LET row == KnowledgeRow(sl.rows, sl.req.id, sl.req.body.key, sl.req.body.value)
                          @@ [id |-> id, created_at |-> created_at]
             IN  /\ db' = [db EXCEPT !.knowledge_vault = @ \cup {row}]
                 /\ reqs' = [reqs EXCEPT ![r] =
                        [sl EXCEPT !.pc = "done", !.status = 201,
                                   !.rows = <<[t |-> "knowledge", id |-> id]>>]]
        /\ UNCHANGED <<listing, returned>>

RECURSIVE knowledgeBySessionPrepended(_, _)
knowledgeBySessionPrepended(rows, groups) ==
    IF rows = <<>> THEN groups
    ELSE LET row == Head(rows)
             made == IF \E i \in DOMAIN groups : groups[i].session_id = row.session_id
                     THEN groups
                     ELSE Append(groups, [session_id |-> row.session_id,
                                          session_status |-> row.session_status,
                                          knowledge_entries |-> <<>>])
         IN  knowledgeBySessionPrepended(Tail(rows),
                 [i \in DOMAIN made |->
                     IF made[i].session_id = row.session_id
                     THEN [made[i] EXCEPT !.knowledge_entries =
                              <<[id |-> row.id, created_at |-> row.created_at]>> \o @]
                     ELSE made[i]])

\* the forEach of the handler: the groups made so far, in the order they were
\* made, each with the entries pushed to it
RECURSIVE knowledgeBySession(_, _)
knowledgeBySession(rows, groups) ==
    IF rows = <<>> THEN groups
    ELSE LET row == Head(rows)
             made == IF \E i \in DOMAIN groups : groups[i].session_id = row.session_id
                     THEN groups
                     ELSE Append(groups, [session_id |-> row.session_id,
                                          session_status |-> row.session_status,
                                          knowledge_entries |-> <<>>])
         IN  knowledgeBySession(Tail(rows),
                 [i \in DOMAIN made |->
                     IF made[i].session_id = row.session_id
                     THEN [made[i] EXCEPT !.knowledge_entries =
                              Append(@, [id |-> row.id, created_at |-> row.created_at])]
                     ELSE made[i]])

\* GET /api/conversations/contacts/:contactId/knowledge: the statement
\*   FROM knowledge_vault kv JOIN sessions s ON kv.session_id = s.id
\*   JOIN contacts ct ON s.contact_id = ct.id
\*   WHERE kv.contact_id = $1 AND kv.company_id = $2 ORDER BY kv.created_at DESC
\* with [contactId, companyId], companyId being company_id || req.companyId,
\* and the response.  The session ids are the uuid texts the seed script
\* writes: none is an array index, so Object.values gives the groups in the
\* order they were made
ContactKnowledge(r) ==
    LET sl == reqs[r]
        companyId == Or(Get(sl.req.query, "company_id", Undefined), sl.companyId)
        joined == { [id |-> kv.id, created_at |-> kv.created_at,
                     session_id |-> kv.session_id,
                     session_status |-> Joined(db.sessions, kv.session_id, NullSession).status] :
                    kv \in {k \in db.knowledge_vault :
                              /\ k.contact_id = DecValue(sl.req.id)
                              /\ k.company_id = IntOf(companyId)
                              /\ \E s \in db.sessions :
                                     /\ s.id = k.session_id
                                     /\ \E ct \in db.contacts : ct.id = s.contact_id} }
    IN  /\ sl.pc = "knowledge"
        /\ IF ~AllDigits(sl.req.id) \/ ~ParamOk(Tok("kv_company_id", "=", 2), companyId)
           THEN reqs' = [reqs EXCEPT ![r] = Catch(sl, Err("22P02", "error", "m1", 0))]
           ELSE \E o \in Orderings(joined, OrderBy("created_at", TRUE)) :
                  reqs' = [reqs EXCEPT ![r] =
                     [sl EXCEPT
                        !.pc = "done", !.status = 200,
                        !.rows =
                          <<[t |-> "contact_knowledge", contact_id |-> sl.req.id,
                             knowledge_by_session |->
                                 knowledgeBySession(
                                     [i \in DOMAIN o |-> CHOOSE row \in joined : row.id = o[i]],
                                     <<>>),
                             total_entries |-> Len(o)]>>]]
        /\ UNCHANGED <<db, listing, returned>>

\* the data set and an entry of contact 1 for its second session
InitKnowledge ==
    /\ db = [DataSet EXCEPT !.knowledge_vault =
                @ \cup {[id |-> 3, contact_id |-> 1, session_id |-> 3, company_id |-> 1,
                         key |-> <<"a">>, value |-> <<"n">>, created_at |-> 3]}]
    /\ reqs = [r \in {1, 2} |-> Idle]
    /\ listing = NoListing
    /\ returned = [p \in 1..MaxPage |-> NoResponse]

NextKnowledge ==
    \/ \E r \in DOMAIN reqs : ReceiveKnowledge(r)
    \/ \E r \in DOMAIN reqs : SessionInfo(r)
    \/ \E r \in DOMAIN reqs : InsertKnowledge(r)
    \/ \E r \in DOMAIN reqs : ContactKnowledge(r)
    \/ \E r \in DOMAIN reqs : UpdateStatus(r)
    \/ \E r \in DOMAIN reqs : StorageFails(r)
    \/ \E r \in DOMAIN reqs : Complete(r)

SpecKnowledge == InitKnowledge /\ [][NextKnowledge]_vars


---------------------------------------------------------------------------
(* The order of GET /api/conversations/contacts, over the creation times   *)
(* the contacts may have.                                                  *)

\* the creation times of the contacts
MaxTime == 4

ContactsRequests ==
    { Request("GET /api/conversations/contacts", "valid", c @@ p @@ l, <<>>) :
        c \in {"company_id" :> Txt1, "company_id" :> Txt2},
        p \in Opt("page", {DigitText(1), DigitText(2)}),
        l \in Opt("limit", {DigitText(1), DigitText(2)}) }

ReceiveContacts(r) ==
    /\ reqs[r].pc = "idle"
    /\ \E req \in ContactsRequests : reqs' = [reqs EXCEPT ![r] = Dispatch(req)]
    /\ UNCHANGED <<db, listing, returned>>

\* the data set with the contacts created at any time: the seed script gives
\* a contact the time of its month and a message any day and hour of it
InitContacts ==
    /\ db \in { [DataSet EXCEPT !.contacts =
                    {[ct EXCEPT !.created_at = IF ct.id = 1 THEN a ELSE b] : ct \in @}] :
                a \in 1..MaxTime, b \in 1..MaxTime }
    /\ reqs = [r \in {1} |-> Idle]
    /\ listing = NoListing
    /\ returned = [p \in 1..MaxPage |-> NoResponse]

NextContacts ==
    \/ \E r \in DOMAIN reqs : ReceiveContacts(r)
    \/ \E r \in DOMAIN reqs : PageQuery(r)
    \/ \E r \in DOMAIN reqs : CountQuery(r)
    \/ \E r \in DOMAIN reqs : Complete(r)

SpecContacts == InitContacts /\ [][NextContacts]_vars


---------------------------------------------------------------------------
(* The transaction helper.  A slot is one call of transaction(callback);   *)
(* its `issued` is what was sent on the client, each with its outcome, and *)
(* db counts, for each slot, the connections taken from the pool and given *)
(* back to it.                                                             *)

\* the calls of the helper each slot makes
MaxCalls == 2

transactionReleaseInTry(pc, ok) ==
    CASE pc = "begin" -> IF ok THEN "callback" ELSE "rollback"
      [] pc = "callback" -> IF ok THEN "commit" ELSE "rollback"
      [] pc = "commit" -> IF ok THEN "release" ELSE "rollback"
      [] pc = "rollback" -> IF ok THEN "release" ELSE "done"
      [] pc = "release" -> "done"

\* the control flow of transaction: where the helper goes after the step at pc
\* has resolved (ok) or rejected.  try { BEGIN; callback; COMMIT; return }
\* catch { ROLLBACK; throw } finally { release }
transaction(pc, ok) ==
    CASE pc = "begin" -> IF ok THEN "callback" ELSE "rollback"
      [] pc = "callback" -> IF ok THEN "commit" ELSE "rollback"
      [] pc = "commit" -> IF ok THEN "release" ELSE "rollback"
      [] pc = "rollback" -> "release"
      [] pc = "release" -> "done"

\* a step of the helper at pc, which sends sql on the client (or runs the
\* callback) and leaves the error thrown last, if any, in `raised`
Await(r, pc, sql) ==
    /\ reqs[r].pc = pc
    /\ \E ok \in BOOLEAN :
           reqs' = [reqs EXCEPT ![r] =
               [reqs[r] EXCEPT
                   !.pc = transaction(pc, ok),
                   !.issued = Append(@, [sql |-> sql, ok |-> ok]),
                   !.raised = IF ok THEN @ ELSE Err("", "Error", sql, 0)]]
    /\ UNCHANGED <<db, listing, returned>>

\* const client = await pool.connect(): a connection, or the rejection that
\* the caller receives when the pool has none in time
Connect(r) ==
    /\ reqs[r].pc = "idle"
    /\ db.taken[r] < MaxCalls
    /\ \/ /\ reqs' = [reqs EXCEPT ![r] = [Idle EXCEPT !.pc = "begin"]]
          /\ db' = [db EXCEPT !.taken[r] = @ + 1]
       \/ /\ reqs' = [reqs EXCEPT ![r] =
                 [Idle EXCEPT !.pc = "done", !.message = "rejected",
                              !.raised = Err("", "Error", "connect", 0)]]
          /\ db' = db
    /\ UNCHANGED <<listing, returned>>

\* await client.query('BEGIN')
Begin(r) == Await(r, "begin", "BEGIN")

\* const result = await callback(client)
Callback(r) == Await(r, "callback", "callback")

\* await client.query('COMMIT')
Commit(r) == Await(r, "commit", "COMMIT")

\* await client.query('ROLLBACK') in the catch block
Rollback(r) == Await(r, "rollback", "ROLLBACK")

\* client.release() in the finally block, and the helper's outcome: it returns
\* the result when nothing was thrown, else it rejects
Release(r) ==
    /\ reqs[r].pc = "release"
    /\ db' = [db EXCEPT !.given[r] = @ + 1]
    /\ reqs' = [reqs EXCEPT ![r] =
           [reqs[r] EXCEPT !.pc = transaction("release", TRUE),
                           !.message = IF reqs[r].raised = Undefined
                                       THEN "returned" ELSE "rejected"]]
    /\ UNCHANGED <<listing, returned>>

InitTx ==
    /\ db = [taken |-> [r \in {1, 2} |-> 0], given |-> [r \in {1, 2} |-> 0]]
    /\ reqs = [r \in {1, 2} |-> Idle]
    /\ listing = NoListing
    /\ returned = [p \in 1..MaxPage |-> NoResponse]

NextTx ==
    \/ \E r \in DOMAIN reqs : Connect(r)
    \/ \E r \in DOMAIN reqs : Begin(r)
    \/ \E r \in DOMAIN reqs : Callback(r)
    \/ \E r \in DOMAIN reqs : Commit(r)
    \/ \E r \in DOMAIN reqs : Rollback(r)
    \/ \E r \in DOMAIN reqs : Release(r)
    \/ \E r \in DOMAIN reqs : Complete(r)

SpecTx == InitTx /\ [][NextTx]_vars


---------------------------------------------------------------------------
(* The session counts: GET /api/metrics/realtime and GET                   *)
(* /api/sessions/stats.  A time is a whole day, db.today is CURRENT_DATE,  *)
(* and a month has three days.                                             *)

\* the text the driver returns for a COUNT
RECURSIVE DecText(_)
DecText(n) == IF n < 10 THEN DigitText(n) ELSE DecText(n \div 10) \o DigitText(n % 10)

\* date_trunc('month', t)
DateTruncMonth(t) == t \div 3

MetricsRequests ==
    { Request(ep, "valid", c, <<>>) :
        ep \in {"GET /api/metrics/realtime", "GET /api/sessions/stats"},
        c \in Opt("company_id", {Txt1, Txt2, <<"3">>, <<"1", "x">>}) }

\* router.use(authenticateToken), requireCompanyAccess and the handler up to
\* its statement
ReceiveMetrics(r) ==
    /\ reqs[r].pc = "idle"
    /\ \E req \in MetricsRequests :
           reqs' = [reqs EXCEPT ![r] =
               LET auth == authenticateToken(req.token)
                   sl == [Idle EXCEPT !.req = req, !.user = auth.user]
                   guard == requireCompanyAccess(<<>>, req.query, req.body)
                   companyId == Or(Get(req.query, "company_id", Undefined), guard.companyId)
               IN  IF auth.status # 0
                   THEN [Respond(sl, auth.status) EXCEPT !.message = auth.message]
                   ELSE IF guard.status # 0 THEN Respond(sl, guard.status)
                   ELSE IF ~Truthy(companyId) THEN Respond(sl, 400)
                   ELSE [sl EXCEPT !.companyId = guard.companyId,
                                   !.pc = IF req.ep = "GET /api/metrics/realtime"
                                          THEN "realtime" ELSE "stats"]]
    /\ UNCHANGED <<db, listing, returned>>

\* the row of the realtime statement: FROM companies comp LEFT JOIN sessions s
\* ON comp.id = s.company_id LEFT JOIN transferred_leads tl ON comp.id =
\* tl.company_id WHERE comp.id = $1, and a COUNT(CASE WHEN ... THEN 1 END) over
\* the joined rows for each figure
RealtimeRow(d, companyId) ==
    LET none == [id |-> 0, status |-> 0, created_at |-> 0]
        comp == {c \in d.companies : c.id = companyId}
        s == {x \in d.sessions : x.company_id = companyId}
        tl == {x \in d.transferred_leads : x.company_id = companyId}
        rows == comp \X (IF s = {} THEN {none} ELSE s) \X (IF tl = {} THEN {none} ELSE tl)
        today(x) == x.id # 0 /\ x.created_at = d.today
        yesterday(x) == x.id # 0 /\ x.created_at = d.today - 1
        thisMonth(x) == x.id # 0 /\ DateTruncMonth(x.created_at) = DateTruncMonth(d.today)
        CountWhen(P(_)) == Str(DecText(Cardinality({row \in rows : P(row)})))
    IN  [conversations_today |-> CountWhen(LAMBDA row : today(row[2])),
         transfers_today |-> CountWhen(LAMBDA row : today(row[3])),
         conversations_yesterday |-> CountWhen(LAMBDA row : yesterday(row[2])),
         transfers_yesterday |-> CountWhen(LAMBDA row : yesterday(row[3])),
         conversations_this_month |-> CountWhen(LAMBDA row : thisMonth(row[2])),
         transfers_this_month |-> CountWhen(LAMBDA row : thisMonth(row[3])),
         active_sessions |->
             CountWhen(LAMBDA row : row[2].id # 0 /\ row[2].status \in {0, 1, 2})]

\* GET /api/metrics/realtime: the statement and the response
RealtimeMetrics(r) ==
    LET sl == reqs[r]
        companyId == Or(Get(sl.req.query, "company_id", Undefined), sl.companyId)
        metrics == RealtimeRow(db, IntOf(companyId))
        sent == [sl EXCEPT !.issued = Append(@, "realtime")]
    IN  /\ sl.pc = "realtime"
        /\ reqs' = [reqs EXCEPT ![r] =
               IF ~(IsNum(companyId) \/ AllDigits(Trim(companyId.str)))
               THEN Respond(sent, 500)
               ELSE [sent EXCEPT
                  !.pc = "done", !.status = 200,
                  !.rows = <<[today |-> [conversations |-> parseInt(metrics.conversations_today),
                                         transfers |-> parseInt(metrics.transfers_today)],
                              yesterday |->
                                  [conversations |-> parseInt(metrics.conversations_yesterday),
                                   transfers |-> parseInt(metrics.transfers_yesterday)],
                              thisMonth |->
                                  [conversations |-> parseInt(metrics.conversations_this_month),
                                   transfers |-> parseInt(metrics.transfers_this_month)],
                              growth |->
                                  [conversations |->
                                       calculateGrowth(metrics.conversations_today,
                                                       metrics.conversations_yesterday),
                                   transfers |->
                                       calculateGrowth(metrics.transfers_today,
                                                       metrics.transfers_yesterday)],
                              activeSessions |-> parseInt(metrics.active_sessions)]>>]]
        /\ UNCHANGED <<db, listing, returned>>

\* the row of the stats statement: FROM sessions s LEFT JOIN transferred_leads
\* tl ON s.id = tl.session_id LEFT JOIN discarded_leads dl ON s.id =
\* dl.session_id WHERE s.company_id = $1.  The average duration is kept as
\* the sum of the durations (in days) and the number of rows that have one.
SessionStatsRow(d, companyId) ==
    LET none == [id |-> 0, session_id |-> 0]
        rows == UNION { LET tl == {x \in d.transferred_leads : x.session_id = s.id}
                            dl == {x \in d.discarded_leads : x.session_id = s.id}
                        IN  {s} \X (IF tl = {} THEN {none} ELSE tl)
                                \X (IF dl = {} THEN {none} ELSE dl)
                        : s \in {x \in d.sessions : x.company_id = companyId} }
        CountWhen(P(_)) == Str(DecText(Cardinality({row \in rows : P(row)})))
        Status(n) == CountWhen(LAMBDA row : row[1].status = n)
        times(s) == {c.created_at : c \in {m \in d.conversations : m.session_id = s.id}}
        timed == {row \in rows : row[1].status >= 3 /\ times(row[1]) # {}}
        duration(s) == (CHOOSE t \in times(s) : \A u \in times(s) : u <= t) - s.created_at
        RECURSIVE Sum(_)
        Sum(rs) == IF rs = {} THEN 0
                   ELSE LET row == CHOOSE x \in rs : TRUE
                        IN  duration(row[1]) + Sum(rs \ {row})
    IN  [total_sessions |-> CountWhen(LAMBDA row : TRUE),
         new_sessions |-> Status(0), active_sessions |-> Status(1),
         qualifying_sessions |-> Status(2), completed_sessions |-> Status(3),
         abandoned_sessions |-> Status(4),
         sessions_with_transfers |->
             Str(DecText(Cardinality({row[2].session_id : row \in rows} \ {0}))),
         sessions_with_discards |->
             Str(DecText(Cardinality({row[3].session_id : row \in rows} \ {0}))),
         avg_session_duration_hours |->
             IF timed = {} THEN Null ELSE [sum |-> Sum(timed), over |-> Cardinality(timed)]]

\* GET /api/sessions/stats: the statement and the response
SessionStats(r) ==
    LET sl == reqs[r]
        companyId == Or(Get(sl.req.query, "company_id", Undefined), sl.companyId)
        stats == SessionStatsRow(db, IntOf(companyId))
        avg == stats.avg_session_duration_hours
        sent == [sl EXCEPT !.issued = Append(@, "stats")]
    IN  /\ sl.pc = "stats"
        /\ reqs' = [reqs EXCEPT ![r] =
               IF ~(IsNum(companyId) \/ AllDigits(Trim(companyId.str)))
               THEN Respond(sent, 500)
               ELSE [sent EXCEPT
                  !.pc = "done", !.status = 200,
                  !.rows = <<[total_sessions |-> parseInt(stats.total_sessions),
                              new_sessions |-> parseInt(stats.new_sessions),
                              active_sessions |-> parseInt(stats.active_sessions),
                              qualifying_sessions |-> parseInt(stats.qualifying_sessions),
                              completed_sessions |-> parseInt(stats.completed_sessions),
                              abandoned_sessions |-> parseInt(stats.abandoned_sessions),
                              sessions_with_transfers |->
                                  parseInt(stats.sessions_with_transfers),
                              sessions_with_discards |->
                                  parseInt(stats.sessions_with_discards),
                              avg_session_duration_hours |->
                                  IF IsNull(avg) \/ avg.sum = 0 THEN Num(0) ELSE avg]>>]]
        /\ UNCHANGED <<db, listing, returned>>

\* the data set with any of its Transfer and Discard records and one more of
\* each for session 1, on any day from the second on
InitCounts ==
    /\ db \in { [today |-> day] @@
                [DataSet EXCEPT !.transferred_leads = tl, !.discarded_leads = dl] :
                day \in 2..MaxTime,
                tl \in SUBSET (TransferredLeads \cup
                               {[id |-> 4, lead_id |-> 1, session_id |-> 1, contact_id |-> 1,
                                 company_id |-> 1, summary |-> <<"o">>, created_at |-> 3]}),
                dl \in SUBSET (DiscardedLeads \cup
                               {[id |-> 4, lead_id |-> 1, session_id |-> 1, contact_id |-> 1,
                                 summary |-> <<"o">>, created_at |-> 3]}) }
    /\ reqs = [r \in {1} |-> Idle]
    /\ listing = NoListing
    /\ returned = [p \in 1..MaxPage |-> NoResponse]

NextCounts ==
    \/ \E r \in DOMAIN reqs : ReceiveMetrics(r)
    \/ \E r \in DOMAIN reqs : RealtimeMetrics(r)
    \/ \E r \in DOMAIN reqs : SessionStats(r)
    \/ \E r \in DOMAIN reqs : Complete(r)

SpecCounts == InitCounts /\ [][NextCounts]_vars


---------------------------------------------------------------------------
(* Properties                                                              *)

\* the tenants an entity of the data set belongs to
Owners(d, item) ==
    CASE item.t = "session" ->
           {x.company_id : x \in {y \in d.sessions : y.id = item.id}}
      [] item.t = "lead" ->
           {x.company_id : x \in {y \in d.leads : y.id = item.id}}
      [] item.t = "transfer" ->
           {x.company_id : x \in {y \in d.transferred_leads : y.id = item.id}}
      [] item.t = "discard" ->
           {x[2].company_id : x \in {y \in d.discarded_leads \X d.sessions :
                                       y[1].id = item.id /\ y[2].id = y[1].session_id}}
      [] item.t = "vehicle" ->
           {x[2].id : x \in {y \in d.stock \X d.companies :
                               y[1].id = item.id /\ y[2].name = y[1].empresa}}
      [] item.t = "message" ->
           {x[2].company_id : x \in {y \in d.conversations \X d.sessions :
                                       y[1].id = item.id /\ y[2].id = y[1].session_id}}
      [] item.t = "knowledge" ->
           {x.company_id : x \in {y \in d.knowledge_vault : y.id = item.id}}
      [] item.t = "contact" ->
           {x.company_id : x \in {y \in d.contact_company : y.contact_id = item.id}}
           \cup {x.company_id : x \in {y \in d.sessions : y.contact_id = item.id}}
      [] item.t = "company" -> {item.id}

\* the tenant a request names
TenantOf(req) ==
    IF "company_id" \in DOMAIN req.query THEN DecValue(req.query["company_id"])
    ELSE IntOf(req.body.company_id)

\* C1: every row of Session, Lead, KnowledgeEntry, Message or InventoryItem
\* data in a successful response, of a list route and of a by-id route alike,
\* belongs to the tenant the request names.
TenantIsolation ==
    \A r \in DOMAIN reqs :
        (/\ reqs[r].pc = "done"
         /\ reqs[r].status = 200
         /\ "company_id" \in DOMAIN reqs[r].req.query)
        => \A i \in 1..Len(reqs[r].rows) :
               reqs[r].rows[i].t \in {"session", "lead", "knowledge", "message", "vehicle"}
               => TenantOf(reqs[r].req) \in Owners(db, reqs[r].rows[i])

\* the page parameters without LIMIT's and OFFSET's
WithoutLimitOffset(params) == <<params[1]>> \o SubSeq(params, 4, Len(params))

\* C2: in GET /api/stock and GET /api/leads, whichever optional filters are
\* present, the count statement's parameters are the page statement's without
\* limit and offset, and the count statement references exactly $1..$n for
\* its n parameters.
CountParamsAgree ==
    \A r \in DOMAIN reqs :
        (/\ reqs[r].req.ep \in {"GET /api/stock", "GET /api/leads"}
         /\ reqs[r].pc \in {"page", "count"})
        => LET plan == ListPlan(reqs[r])
           IN  /\ plan.countParams = WithoutLimitOffset(plan.pageParams)
               /\ Placeholders(plan.countSql) = 1..Len(plan.countParams)

\* the free-text fragment of a WHERE clause
SearchFragment(where) ==
    CHOOSE frag \in Range(where) : \E i \in 1..Len(frag.toks) : frag.toks[i].op = "ILIKE"

\* C3: in GET /api/conversations, /api/conversations/contacts and
\* /api/leads/transferred with a search term, the count statement's search
\* predicate is the page statement's with every occurrence of its placeholder
\* renumbered to the position of the search value among the count parameters,
\* and the count statement references no placeholder outside its parameters.
SearchRenumbered ==
    \A r \in DOMAIN reqs :
        (/\ reqs[r].req.ep \in {"GET /api/conversations",
                                "GET /api/conversations/contacts",
                                "GET /api/leads/transferred"}
         /\ reqs[r].pc \in {"page", "count"}
         /\ "search" \in DOMAIN reqs[r].req.query)
        => LET plan == ListPlan(reqs[r])
               value == Wild(reqs[r].req.query["search"])
               inPage == SearchFragment(plan.pageSql.where)
               inCount == SearchFragment(plan.countSql.where)
           IN  /\ \E k \in 1..Len(plan.countParams) :
                      /\ plan.countParams[k] = value
                      /\ inCount.toks = [i \in 1..Len(inPage.toks) |->
                                            [inPage.toks[i] EXCEPT !.ph = k]]
               /\ Placeholders(plan.countSql) \subseteq 1..Len(plan.countParams)


\* the number of parameters a route's statement has before the optional filters
BaseParams(ep) ==
    IF ep \in {"GET /api/search/contacts", "GET /api/search/global"} THEN 2 ELSE 3

\* the fragments of a WHERE clause that use a placeholder beyond the base ones
Appended(where, base) ==
    LET beyond(frag) == \E i \in 1..Len(frag.toks) : frag.toks[i].ph > base
    IN  SelectSeq(where, beyond)

\* the request parameter a filter token tests its column against
FilterName(ep, tok) ==
    CASE tok.op = "ILIKE" /\ tok.col = "MARCA" -> "brand"
      [] tok.op = "ILIKE" /\ tok.col = "MODELO" -> "model"
      [] tok.op = "ILIKE" /\ tok.col = "CATEGORIA" -> "category"
      [] tok.op = "ILIKE" /\ tok.col = "COMBUSTIVEL" -> "fuel_type"
      [] tok.op = "ILIKE" /\ tok.col = "TRANSMISSAO" -> "transmission"
      [] tok.op = "ILIKE" /\ tok.col = "LOCAL_" -> "location"
      [] tok.op = "ILIKE" /\ tok.col \in {"ct_name", "ct_phone_number", "ct_email",
             "l_name", "l_email", "l_phone_number", "tl_summary"} -> "search"
      [] tok.col = "PRECO" /\ tok.op = ">=" -> "min_price"
      [] tok.col = "PRECO" /\ tok.op = "<=" -> "max_price"
      [] tok.col \in {"s_status", "l_status", "s2_status"} ->
           IF ep = "GET /api/search/conversations" THEN "session_status" ELSE "status"
      [] tok.col = "l_lead_source" -> "lead_source"
      [] tok.col = "l_channel" -> "channel"
      [] tok.col = "cc_company_id" -> "company_id"

\* the value a filter token is to be compared with: the request's text, in
\* wildcards for a substring match, parsed for a numeric column
FilterValue(ep, q, tok) ==
    LET text == q[FilterName(ep, tok)]
    IN  IF tok.op = "ILIKE" THEN [like |-> text]
        ELSE IF tok.col \in TextCols THEN [str |-> text]
        ELSE parseInt(Str(text))

\* the optional fragments of a statement use $base+1, $base+2, ... in order,
\* each one placeholder, bound to its own filter's value
WellNumbered(ep, q, stmt) ==
    LET base == BaseParams(ep)
        app == Appended(stmt.sql.where, base)
    IN  /\ Len(stmt.params) = base + Len(app)
        /\ \A i \in 1..Len(app) : \A j \in 1..Len(app[i].toks) :
               app[i].toks[j].ph > base =>
                   /\ app[i].toks[j].ph = base + i
                   /\ stmt.params[base + i] = FilterValue(ep, q, app[i].toks[j])

\* C4: in every page statement of a list or search route, whichever optional
\* filters are present, the fragments appended for them use consecutive
\* placeholders in increasing order, without gap or repetition, and the value
\* of the fragment that uses $k is element k of the parameter list.
PlaceholdersAligned ==
    \A r \in DOMAIN reqs :
        /\ reqs[r].pc = "page" =>
               WellNumbered(reqs[r].req.ep, reqs[r].req.query,
                            Stmt(ListPlan(reqs[r]).pageSql, ListPlan(reqs[r]).pageParams))
        /\ reqs[r].pc = "search" =>
               \A i \in 1..Len(Statements(reqs[r])) :
                   WellNumbered(reqs[r].req.ep, reqs[r].req.query, Statements(reqs[r])[i])

\* a stock listing with three of its filters, whose page statement was sent
PlaceholdersAlignedWitness ==
    \E r \in DOMAIN reqs :
        /\ reqs[r].pc = "count"
        /\ reqs[r].req.ep = "GET /api/stock"
        /\ {"brand", "max_price", "location"} \subseteq DOMAIN reqs[r].req.query
        /\ "model" \notin DOMAIN reqs[r].req.query
        /\ Len(reqs[r].issued[2].params) = 6
        /\ reqs[r].issued[2].params[5] = Num(2)
        /\ Placeholders(reqs[r].issued[2].sql) = 1..6

\* the name of tenant c
NameOf(d, c) ==
    IF \E x \in d.companies : x.id = c
    THEN Str((CHOOSE x \in d.companies : x.id = c).name)
    ELSE Undefined

\* the query building of page p of listing l
PlanOf(l, p) ==
    LET req == Request(l.ep, "valid", ("page" :> DigitText(p)) @@ l.query, <<>>)
    IN  ListPlan([Dispatch(req) EXCEPT !.companyName = NameOf(db, TenantOf(req))])

\* the root entities that satisfy the filters of listing l
MatchingIds(l) ==
    {row.id : row \in Matching(db, PlanOf(l, 1).pageSql, PlanOf(l, 1).pageParams)}

\* the least number of pages of `limit` items that hold n items
PagesFor(n, limit) == CHOOSE k \in 0..n : k * limit >= n /\ \A j \in 0..n : j * limit >= n => k <= j

\* the root entities of a response
IdsOf(rows) == {rows[i].id : i \in 1..Len(rows)}

\* C5: for a fixed data set, tenant, filter set and limit, once pages 1..pages
\* of a listing have been answered, their items are exactly the `total`
\* distinct matching entities: each on some page, none on two.
PagesPartition ==
    listing # NoListing =>
        LET ids == MatchingIds(listing)
            n == Cardinality(ids)
            pages == PagesFor(n, PlanOf(listing, 1).limit.num)
        IN  (pages <= MaxPage /\ \A p \in 1..pages : returned[p] # NoResponse)
            => /\ \A p \in 1..pages :
                      /\ returned[p].status = 200
                      /\ returned[p].pagination.total = n
                      /\ returned[p].pagination.pages = pages
                      /\ Cardinality(IdsOf(returned[p].rows)) = Len(returned[p].rows)
               /\ UNION {IdsOf(returned[p].rows) : p \in 1..pages} = ids
               /\ \A p1, p2 \in 1..pages :
                      p1 # p2 => IdsOf(returned[p1].rows) \cap IdsOf(returned[p2].rows) = {}

\* the smaller of two numbers
Min(a, b) == IF a < b THEN a ELSE b

\* C6: two requests for page 1 and page 2 of one listing, in flight together
\* with their statements interleaved in any way, are answered with disjoint
\* item sets whose union has min(2 * limit, total) elements.
ConcurrentPagesDisjoint ==
    \A r1, r2 \in DOMAIN reqs :
        (/\ reqs[r1].pc = "done" /\ PageOf(reqs[r1]) = 1
         /\ reqs[r2].pc = "done" /\ PageOf(reqs[r2]) = 2)
        => /\ reqs[r1].status = 200
           /\ reqs[r2].status = 200
           /\ IdsOf(reqs[r1].rows) \cap IdsOf(reqs[r2].rows) = {}
           /\ Cardinality(IdsOf(reqs[r1].rows) \cup IdsOf(reqs[r2].rows))
                  = Min(2 * reqs[r1].pagination.limit, reqs[r1].pagination.total)


\* C7: in every paginated list response with page >= 1, limit >= 1 and
\* total >= 0, pages is the ceiling of total / limit, hasNext is page < pages,
\* hasPrev is page > 1, and hasNext holds exactly when page * limit < total.
PaginationArithmetic ==
    \A r \in DOMAIN reqs :
        (/\ reqs[r].pc = "done"
         /\ reqs[r].status = 200
         /\ reqs[r].req.ep \in ListRoutes)
        => LET pg == reqs[r].pagination
           IN  (pg.page >= 1 /\ pg.limit >= 1 /\ pg.total >= 0)
               => /\ pg.pages * pg.limit >= pg.total
                  /\ pg.pages >= 0
                  /\ pg.pages > 0 => (pg.pages - 1) * pg.limit < pg.total
                  /\ pg.hasNext = (pg.page < pg.pages)
                  /\ pg.hasPrev = (pg.page > 1)
                  /\ pg.hasNext <=> (pg.page * pg.limit < pg.total)

\* the last page of three items in pages of two
PaginationArithmeticWitness ==
    \E r \in DOMAIN reqs :
        /\ reqs[r].pc = "done"
        /\ reqs[r].status = 200
        /\ reqs[r].req.ep \in ListRoutes
        /\ reqs[r].pagination.total = 3
        /\ reqs[r].pagination.limit = 2
        /\ reqs[r].pagination.page = 2
        /\ reqs[r].pagination.pages = 2
        /\ ~reqs[r].pagination.hasNext
        /\ reqs[r].pagination.hasPrev

\* the page statement a list request has sent
PageStatement(sl) ==
    IF sl.req.ep = "GET /api/stock" THEN sl.issued[2] ELSE sl.issued[1]

\* the limit and page a request asks for, given the route's default page size
AskedLimit(q, default) == IF "limit" \in DOMAIN q THEN DecValue(q["limit"]) ELSE default

AskedPage(q) == IF "page" \in DOMAIN q THEN DecValue(q["page"]) ELSE 1

\* the page statement binds LIMIT to the limit asked for (the default when
\* omitted) and OFFSET to (page - 1) * limit, page 1 when omitted
BindsWindow(sl, default) ==
    LET stmt == PageStatement(sl)
        limit == AskedLimit(sl.req.query, default)
    IN  /\ stmt.params[stmt.sql.limit] = Num(limit)
        /\ stmt.params[stmt.sql.offset] = Num((AskedPage(sl.req.query) - 1) * limit)

\* C8 as stated: every paginated list route uses page size 20 and page 1 when
\* the caller omits them, and binds LIMIT = limit and OFFSET = (page-1)*limit.
DefaultWindow ==
    \A r \in DOMAIN reqs :
        (reqs[r].req.ep \in ListRoutes /\ reqs[r].pc = "count")
        => BindsWindow(reqs[r], 20)

\* C8, amended: the default page size is 20 on every paginated list route
\* except GET /api/sessions, where it is 50; the default page is 1, and the
\* page statement binds LIMIT = limit and OFFSET = (page-1)*limit.
DefaultWindowAmended ==
    \A r \in DOMAIN reqs :
        (reqs[r].req.ep \in ListRoutes /\ reqs[r].pc = "count")
        => BindsWindow(reqs[r], IF reqs[r].req.ep = "GET /api/sessions" THEN 50 ELSE 20)

\* a session listing that names neither page nor limit: LIMIT 50 OFFSET 0
DefaultWindowWitness ==
    \E r \in DOMAIN reqs :
        /\ reqs[r].req.ep = "GET /api/sessions"
        /\ reqs[r].pc = "count"
        /\ DOMAIN reqs[r].req.query = {"company_id"}
        /\ PageStatement(reqs[r]).params[2] = Num(50)
        /\ PageStatement(reqs[r]).params[3] = Num(0)

\* whether the text q is absent from the request or shorter than two
\* characters once trimmed
TooShort(q, name) == name \notin DOMAIN q \/ Len(Trim(q[name])) < 2

\* C9: on every search route, a request whose q is absent or shorter than two
\* characters once trimmed is answered 400 (when its token is accepted) and
\* no statement is sent for it.
ShortSearchRejected ==
    \A r \in DOMAIN reqs :
        (/\ reqs[r].req.ep \in SearchRoutes
         /\ reqs[r].pc # "idle"
         /\ TooShort(reqs[r].req.query, "q"))
        => /\ reqs[r].pc = "done"
           /\ reqs[r].issued = <<>>
           /\ reqs[r].req.token = "valid" => reqs[r].status = 400

\* a search for " a ", three characters of which one is left by trimming,
\* answered 400 by a route whose tenant guard let it through
ShortSearchRejectedWitness ==
    \E r \in DOMAIN reqs :
        /\ reqs[r].req.ep = "GET /api/search/global"
        /\ reqs[r].req.token = "valid"
        /\ "q" \in DOMAIN reqs[r].req.query
        /\ reqs[r].req.query["q"] = <<" ", "a", " ">>
        /\ reqs[r].companyId = Num(1)
        /\ reqs[r].pc = "done"
        /\ reqs[r].status = 400
        /\ reqs[r].issued = <<>>

\* C10: on the list routes with a free-text `search` filter, a search term
\* shorter than two characters once trimmed is answered 400 before any
\* predicate is built and before any statement is sent.
ShortFilterRejected ==
    \A r \in DOMAIN reqs :
        (/\ reqs[r].req.ep \in {"GET /api/conversations", "GET /api/conversations/contacts",
                                "GET /api/leads", "GET /api/leads/transferred"}
         /\ reqs[r].req.token = "valid"
         /\ reqs[r].pc # "idle"
         /\ "search" \in DOMAIN reqs[r].req.query
         /\ TooShort(reqs[r].req.query, "search"))
        => /\ reqs[r].pc = "done"
           /\ reqs[r].status = 400
           /\ reqs[r].issued = <<>>


\* the last message of session id: greatest created_at, then greatest id
LastMessage(d, id) ==
    CHOOSE m \in d.conversations :
        /\ m.session_id = id
        /\ \A o \in d.conversations :
               o.session_id = id =>
                   \/ o.created_at < m.created_at
                   \/ (o.created_at = m.created_at /\ o.id <= m.id)

\* C11: every session a session or conversation route returns reports as its
\* message count the number of messages of that session, and as its last
\* message the content, time and sender of the message with the greatest
\* created_at, the one with the greatest id among several.
MessageSummary ==
    \A r \in DOMAIN reqs : \A i \in 1..Len(reqs[r].rows) :
        LET row == reqs[r].rows[i]
            msgs == {c \in db.conversations : c.session_id = row.id}
        IN  (row.t = "session" /\ "message_count" \in DOMAIN row)
            => /\ row.message_count = Cardinality(msgs)
               /\ msgs # {} =>
                      /\ row.last_message = Str(LastMessage(db, row.id).content)
                      /\ row.last_message_time = Num(LastMessage(db, row.id).created_at)
                      /\ "last_message_sender" \in DOMAIN row =>
                             row.last_message_sender = Num(LastMessage(db, row.id).sender)

\* the Session, Lead and Message rows of tenant id
Dependents(d, id) ==
    {x \in d.sessions \cup d.leads \cup d.conversations : x.company_id = id}

HasCompany(d, id) == \E c \in d.companies : c.id = id

\* C12: DELETE /api/companies/:id on a tenant that has a Message, Lead or
\* Session row when the handler checks responds 409 with the count of each
\* kind and leaves the tenant's row; on an existing tenant without such rows it
\* goes on to delete, responds 200 and removes the row, after which
\* GET /api/companies/:id on that tenant responds 404.
DeleteBlockedByDependents ==
    [][\A r \in DOMAIN reqs :
         LET sl == reqs[r]
             id == DecValue(sl.req.id)
             deps == Dependents(db, id)
             served == reqs'[r] # sl /\ reqs'[r].raised = Undefined
         IN  /\ (sl.pc = "check" /\ served /\ deps # {}) =>
                    /\ reqs'[r].pc = "done" /\ reqs'[r].status = 409
                    /\ reqs'[r].rows =
                         <<[conversations |-> Cardinality(deps \cap db.conversations),
                            leads |-> Cardinality(deps \cap db.leads),
                            sessions |-> Cardinality(deps \cap db.sessions)]>>
                    /\ db' = db
             /\ (sl.pc = "check" /\ served /\ deps = {}) => reqs'[r].pc = "delete"
             /\ (sl.pc = "delete" /\ served /\ deps = {} /\ HasCompany(db, id)) =>
                    /\ reqs'[r].pc = "done" /\ reqs'[r].status = 200
                    /\ ~HasCompany(db', id)
             /\ (sl.pc = "fetch" /\ served /\ ~HasCompany(db, id)) =>
                    reqs'[r].status = 404
    ]_vars

\* the tenant without dependents was deleted by one request and a later
\* GET /api/companies/3 was answered 404
DeleteBlockedByDependentsWitness ==
    /\ reqs[1].req.ep = "DELETE /api/companies/:id" /\ reqs[1].req.id = <<"3">>
    /\ reqs[1].pc = "done" /\ reqs[1].status = 200
    /\ reqs[2].req.ep = "GET /api/companies/:id" /\ reqs[2].req.id = <<"3">>
    /\ reqs[2].pc = "done" /\ reqs[2].status = 404
    /\ ~HasCompany(db, 3)

\* C13: however DELETE /api/companies/:id interleaves with the insertion of a
\* Session, Lead or Message for the same tenant, no state has a Session, Lead or
\* Message whose tenant is not in companies.
DeleteAtomic ==
    \A x \in db.sessions \cup db.leads \cup db.conversations : HasCompany(db, x.company_id)

\* the body carries a status that is an integer of 0..4
ValidStatus(body) ==
    /\ "status" \in DOMAIN body
    /\ IsNum(body.status)
    /\ body.status.num \in 0..4

SessionsWith(d, id) ==
    IF AllDigits(id) THEN {x \in d.sessions : x.id = DecValue(id)} ELSE {}

\* C14: PUT /api/sessions/:id/status with the status missing, not an integer
\* or outside 0..4 responds 400 and changes no session; with an integer of
\* 0..4 on an existing session it responds 200 and stores that status, which a
\* following GET /api/sessions/:id returns; on a session that does not exist
\* it responds 404 and changes nothing.
StatusUpdateValidated ==
    [][\A r \in DOMAIN reqs :
         LET sl == reqs[r]
             new == reqs'[r]
         IN  /\ (sl.pc = "idle" /\ new.req.ep = "PUT /api/sessions/:id/status"
                   /\ new.raised = Undefined) =>
                    IF ValidStatus(new.req.body)
                    THEN new.pc = "update"
                    ELSE new.pc = "done" /\ new.status = 400 /\ db' = db
             /\ (sl.pc = "update" /\ new # sl /\ new.raised = Undefined) =>
                    IF SessionsWith(db, sl.req.id) = {}
                    THEN new.status = 404 /\ db' = db
                    ELSE /\ new.status = 200
                         /\ \A x \in SessionsWith(db', sl.req.id) :
                                x.status = sl.req.body.status.num
                         /\ {x \in db'.sessions : x.id # DecValue(sl.req.id)}
                              = {x \in db.sessions : x.id # DecValue(sl.req.id)}
                         /\ Cardinality(db'.sessions) = Cardinality(db.sessions)
             /\ (sl.pc = "read" /\ new # sl /\ new.raised = Undefined
                   /\ SessionsWith(db, sl.req.id) # {}) =>
                    /\ new.status = 200
                    /\ \A x \in SessionsWith(db, sl.req.id) : new.rows[1].status = x.status
    ]_vars

\* session 1 was given status 4 and a GET of session 1 returned status 4
StatusUpdateValidatedWitness ==
    /\ reqs[1].req.ep = "PUT /api/sessions/:id/status" /\ reqs[1].req.id = <<"1">>
    /\ reqs[1].req.body = [status |-> Num(4)]
    /\ reqs[1].pc = "done" /\ reqs[1].status = 200
    /\ reqs[2].req.ep = "GET /api/sessions/:id" /\ reqs[2].req.id = <<"1">>
    /\ reqs[2].pc = "done" /\ reqs[2].status = 200
    /\ reqs[2].rows[1].status = 4

\* the candidate identifier of a request: the first non-empty of the query
\* parameter and the body field (no guarded route has a path parameter for it)
Candidate(req) ==
    IF "company_id" \in DOMAIN req.query /\ req.query["company_id"] # <<>>
    THEN Str(req.query["company_id"])
    ELSE IF "company_id" \in DOMAIN req.body
              /\ req.body.company_id \notin {Null, Num(0), Str(<<>>)}
         THEN req.body.company_id
         ELSE Undefined

\* the candidate is parseable as an integer, as parseInt parses: after leading
\* white space it starts with a digit
Parseable(v) ==
    \/ IsNum(v)
    \/ IsStr(v) /\ \E i \in 1..Len(v.str) :
                       /\ v.str[i] \in DigitChars
                       /\ \A j \in 1..(i - 1) : v.str[j] = " "

IdentityExtractor ==
    \A r \in DOMAIN reqs :
        LET sl == reqs[r]
            refusedWith(status, message) ==
                /\ sl.pc = "done" /\ sl.status = status /\ sl.message = message
                /\ sl.user = Undefined /\ sl.issued = <<>> /\ sl.rows = <<>>
        IN  sl.pc # "idle" =>
                CASE sl.req.token = "none" -> refusedWith(401, "Access token required")
                  [] sl.req.token \in {"malformed", "forged"} -> refusedWith(401, "Invalid token")
                  [] sl.req.token = "expired" -> refusedWith(401, "Token expired")
                  [] sl.req.token = "unverifiable" -> refusedWith(500, "Authentication failed")
                  [] sl.req.token = "valid" ->
                       /\ sl.message = ""
                       /\ sl.user # Undefined
                       /\ sl.user.sub = 7 /\ sl.user.email = <<"a">>
                       /\ sl.req.ep # "GET /api/search/contacts" => sl.user.id = 7

\* a request with a valid token was served with the identity attached
IdentityExtractorWitness ==
    /\ reqs[1].req.token = "valid" /\ reqs[1].req.ep = "GET /api/sessions"
    /\ reqs[1].pc = "done" /\ reqs[1].status = 200
    /\ reqs[1].user # Undefined /\ reqs[1].user.id = 7

\* C17: GET /api/search/contacts is never failed for authentication reasons:
\* with a missing, malformed or expired token the request reaches the handler
\* with no identity attached.
OptionalAuthNeverFails ==
    \A r \in DOMAIN reqs :
        (/\ reqs[r].pc # "idle"
         /\ reqs[r].req.ep = "GET /api/search/contacts"
         /\ reqs[r].req.token \in {"none", "malformed", "expired"}) =>
            /\ reqs[r].status # 401
            /\ reqs[r].message = ""
            /\ reqs[r].user = Undefined

\* C18: on every endpoint a storage error raised during the request is
\* answered by its code: 23505 with 409, 23503 with 400, a refused connection
\* or a pool connection timeout with 503.
StorageErrorsMapped ==
    \A r \in DOMAIN reqs :
        LET sl == reqs[r]
        IN  (sl.pc = "done" /\ sl.raised # Undefined /\ sl.raised.name # "SyntaxError") =>
                CASE sl.raised.code = "23505" -> sl.status = 409
                  [] sl.raised.code = "23503" -> sl.status = 400
                  [] sl.raised.code \in {"ECONNREFUSED", ""} -> sl.status = 503
                  [] OTHER -> TRUE

\* the body of a response
Body(sl) == [status |-> sl.status, message |-> sl.message, detail |-> sl.detail]

\* C19: outside development mode the body of an error response does not depend
\* on the internal error's message or stack: two requests to the same route
\* that fail with errors differing only in their message receive identical
\* bodies, which carry nothing of the message.
ErrorBodiesGeneric ==
    \A r1, r2 \in DOMAIN reqs :
        (/\ reqs[r1].pc = "done" /\ reqs[r2].pc = "done"
         /\ reqs[r1].raised # Undefined /\ reqs[r2].raised # Undefined
         /\ reqs[r1].req.ep = reqs[r2].req.ep
         /\ [reqs[r1].raised EXCEPT !.message = ""] = [reqs[r2].raised EXCEPT !.message = ""]) =>
            /\ Body(reqs[r1]) = Body(reqs[r2])
            /\ reqs[r1].raised.message \notin {reqs[r1].message, reqs[r1].detail}

Abs(n) == IF n < 0 THEN -n ELSE n

\* the growth figure g, in hundredths, is right for the counts t and y
GrowthOf(g, t, y) ==
    IF y > 0 THEN 2 * Abs(g * y - 10000 * (t - y)) <= y
    ELSE IF t > 0 THEN g = 10000
    ELSE g = 0

\* C20: the growth percentage of the realtime metrics is
\* (today - yesterday) / yesterday * 100 rounded to two decimals when
\* yesterday > 0, 100 when yesterday = 0 and today > 0, and 0 when both are 0,
\* for conversations and for transfers alike.
RealtimeGrowth ==
    \A r \in DOMAIN reqs :
        (reqs[r].pc = "done" /\ reqs[r].req.ep = "GET /api/metrics/realtime") =>
            LET m == db.metrics
                g == reqs[r].rows[1].growth
            IN  /\ GrowthOf(g.conversations, DecValue(m.conversations_today.str),
                            DecValue(m.conversations_yesterday.str))
                /\ GrowthOf(g.transfers, DecValue(m.transfers_today.str),
                            DecValue(m.transfers_yesterday.str))

\* one conversation today after three yesterday is a growth of -66.67, and two
\* transfers today after none yesterday a growth of 100
RealtimeGrowthWitness ==
    /\ reqs[1].pc = "done"
    /\ db.metrics.conversations_today = Str(<<"1">>)
    /\ db.metrics.conversations_yesterday = Str(<<"3">>)
    /\ db.metrics.transfers_today = Str(<<"2">>)
    /\ db.metrics.transfers_yesterday = Str(<<"0">>)
    /\ reqs[1].rows[1].growth = [conversations |-> -6667, transfers |-> 10000]

\* the entries of contact and tenant in the knowledge vault
EntriesOf(d, contact, tenant) ==
    {k \in d.knowledge_vault : k.contact_id = contact /\ k.company_id = tenant}

\* the greatest creation time of the entries of a group
MostRecent(group) ==
    LET times == {group.knowledge_entries[j].created_at : j \in DOMAIN group.knowledge_entries}
    IN  CHOOSE t \in times : \A u \in times : u <= t

RECURSIVE SumOfSizes(_)
SumOfSizes(groups) ==
    IF groups = <<>> THEN 0
    ELSE Len(Head(groups).knowledge_entries) + SumOfSizes(Tail(groups))

\* the response has one group for each session of the entries, every entry in
\* the group of its session and nowhere else, total_entries the sum of the
\* group sizes, and the groups by their most recent entry, latest first
GroupedBySession(res, entries) ==
    LET groups == res.knowledge_by_session
    IN  /\ {groups[i].session_id : i \in DOMAIN groups} = {k.session_id : k \in entries}
        /\ \A i, j \in DOMAIN groups : i # j => groups[i].session_id # groups[j].session_id
        /\ \A i \in DOMAIN groups :
               LET e == groups[i].knowledge_entries
               IN  /\ {e[j].id : j \in DOMAIN e}
                        = {k.id : k \in {x \in entries : x.session_id = groups[i].session_id}}
                   /\ \A j, l \in DOMAIN e : j # l => e[j].id # e[l].id
        /\ res.total_entries = SumOfSizes(groups)
        /\ \A i, j \in DOMAIN groups : i < j => MostRecent(groups[i]) >= MostRecent(groups[j])

\* the entries of every group are in the order they were inserted: the
\* table's sequence gives a later entry a greater id
InsertionOrder(res) ==
    \A i \in DOMAIN res.knowledge_by_session :
        LET e == res.knowledge_by_session[i].knowledge_entries
        IN  \A j, l \in DOMAIN e : j < l => e[j].id < e[l].id

\* a slot answers GET /api/conversations/contacts/:contactId/knowledge with 200
AnswersKnowledge(r) ==
    /\ reqs[r].pc = "knowledge"
    /\ reqs'[r].pc = "done"
    /\ reqs'[r].status = 200

\* C21: GET /api/conversations/contacts/:contactId/knowledge returns one group
\* for each distinct session id; every entry of the contact and tenant is in
\* exactly one group, that of its session, and total_entries is the sum of the
\* group sizes; within a group the entries keep their insertion order, and the
\* groups are ordered by their most recent entry, latest first.
KnowledgeGrouping ==
    [][\A r \in DOMAIN reqs :
           AnswersKnowledge(r) =>
               /\ GroupedBySession(reqs'[r].rows[1],
                                   EntriesOf(db, DecValue(reqs[r].req.id), TenantOf(reqs[r].req)))
               /\ InsertionOrder(reqs'[r].rows[1])]_vars

\* what holds of the code: the groups are as C21 states, and within a group
\* the entries are in the order of the statement, latest first
KnowledgeGroupingLatestFirst ==
    [][\A r \in DOMAIN reqs :
           AnswersKnowledge(r) =>
               /\ GroupedBySession(reqs'[r].rows[1],
                                   EntriesOf(db, DecValue(reqs[r].req.id), TenantOf(reqs[r].req)))
               /\ \A i \in DOMAIN reqs'[r].rows[1].knowledge_by_session :
                      LET e == reqs'[r].rows[1].knowledge_by_session[i].knowledge_entries
                      IN  \A j, l \in DOMAIN e : j < l => e[j].created_at >= e[l].created_at]_vars

\* contact 1 of tenant 1 has two entries of session 1, written at different
\* times, and one of session 3, and all are returned
KnowledgeGroupingWitness ==
    \E r \in DOMAIN reqs :
        /\ reqs[r].pc = "done" /\ reqs[r].status = 200
        /\ reqs[r].req.ep = "GET /api/conversations/contacts/:contactId/knowledge"
        /\ Len(reqs[r].rows[1].knowledge_by_session) = 2
        /\ reqs[r].rows[1].total_entries = 3
        /\ \E i \in {1, 2} :
               LET e == reqs[r].rows[1].knowledge_by_session[i].knowledge_entries
               IN  Len(e) = 2 /\ e[1].created_at > e[2].created_at

\* a slot answers POST /api/conversations/:sessionId/knowledge, the request
\* having passed authenticateToken and no statement having failed
AnswersEntry(r) ==
    /\ reqs[r].pc # "done"
    /\ reqs'[r].pc = "done"
    /\ reqs'[r].req.ep = "POST /api/conversations/:sessionId/knowledge"
    /\ reqs'[r].user # Undefined
    /\ reqs'[r].raised = Undefined

\* key or value is absent from the body, or empty
Incomplete(body) ==
    \/ "key" \notin DOMAIN body \/ "value" \notin DOMAIN body
    \/ \E f \in {"key", "value"} : f \in DOMAIN body /\ body[f] \in {Str(<<>>), Null}

\* key and value are texts that are not empty
Given(body) ==
    \A f \in {"key", "value"} : f \in DOMAIN body /\ IsStr(body[f]) /\ body[f].str # <<>>

\* C30: every entry created through POST /api/conversations/:sessionId/knowledge
\* carries the contact id and the tenant id of the session it names, whatever
\* other requests run in between; when key or value is missing the response is
\* 400, when the session does not exist it is 404, and in both cases no entry
\* is inserted.
KnowledgeOwned ==
    [][/\ \A k \in db'.knowledge_vault :
              \E s \in db'.sessions :
                  /\ s.id = k.session_id
                  /\ s.contact_id = k.contact_id
                  /\ s.company_id = k.company_id
       /\ \A r \in DOMAIN reqs :
              AnswersEntry(r) =>
                  LET sl == reqs'[r]
                      exists == \E s \in db.sessions : Str(sl.req.id) = Str(DigitText(s.id))
                  IN  /\ Incomplete(sl.req.body) => sl.status = 400
                      /\ (Given(sl.req.body) /\ ~exists) => sl.status = 404
                      /\ (Incomplete(sl.req.body) \/ ~exists) =>
                             db'.knowledge_vault = db.knowledge_vault
                      /\ sl.status = 201 <=>
                             Cardinality(db'.knowledge_vault)
                                 = Cardinality(db.knowledge_vault) + 1]_vars

\* an entry was made for session 4, of contact 2 and tenant 2, the status of
\* session 1 was changed, and a request that names session 9 was answered 404
KnowledgeOwnedWitness ==
    /\ \E k \in db.knowledge_vault :
           k.id = 4 /\ k.session_id = 4 /\ k.contact_id = 2 /\ k.company_id = 2
    /\ \E s \in db.sessions : s.id = 1 /\ s.status = 4
    /\ \E r \in DOMAIN reqs :
           /\ reqs[r].pc = "done" /\ reqs[r].status = 404
           /\ reqs[r].req.ep = "POST /api/conversations/:sessionId/knowledge"

\* the sessions of a contact under a tenant
SessionsOf(d, contact, tenant) ==
    {s \in d.sessions : s.contact_id = contact /\ s.company_id = tenant}

\* C22: for every contact returned by GET /api/conversations/contacts for
\* tenant T, session_count is the number of the contact's sessions under T,
\* active_sessions the number of those whose status is 0, 1 or 2, and
\* latest_status the status of the one created last; a contact without a
\* session under T is never returned.
ContactRollups ==
    \A r \in DOMAIN reqs :
        LET sl == reqs[r]
        IN  (sl.pc = "done" /\ sl.status = 200
             /\ sl.req.ep = "GET /api/conversations/contacts") =>
                \A i \in DOMAIN sl.rows :
                    LET ss == SessionsOf(db, sl.rows[i].id, TenantOf(sl.req))
                    IN  /\ ss # {}
                        /\ sl.rows[i].session_count = Cardinality(ss)
                        /\ sl.rows[i].active_sessions
                               = Cardinality({s \in ss : s.status \in {0, 1, 2}})
                        /\ \E s \in ss :
                               /\ \A o \in ss : o.created_at <= s.created_at
                               /\ sl.rows[i].latest_status = s.status

\* what holds of the code: the same with the sessions of status 1 or 2 counted
\* as active
ContactRollupsOneTwo ==
    \A r \in DOMAIN reqs :
        LET sl == reqs[r]
        IN  (sl.pc = "done" /\ sl.status = 200
             /\ sl.req.ep = "GET /api/conversations/contacts") =>
                \A i \in DOMAIN sl.rows :
                    LET ss == SessionsOf(db, sl.rows[i].id, TenantOf(sl.req))
                    IN  /\ ss # {}
                        /\ sl.rows[i].session_count = Cardinality(ss)
                        /\ sl.rows[i].active_sessions
                               = Cardinality({s \in ss : s.status \in {1, 2}})
                        /\ \E s \in ss :
                               /\ \A o \in ss : o.created_at <= s.created_at
                               /\ sl.rows[i].latest_status = s.status

\* the time of the latest message of a contact under a tenant, 0 when it has none
LatestMessageTime(d, contact, tenant) ==
    LET times == {c.created_at : c \in
                    {m \in d.conversations :
                        \E s \in SessionsOf(d, contact, tenant) : s.id = m.session_id}}
    IN  IF times = {} THEN 0 ELSE CHOOSE t \in times : \A u \in times : u <= t

\* the later of the latest message time and the creation time of a contact
LaterOf(d, contact, tenant) ==
    LET ct == CHOOSE x \in d.contacts : x.id = contact
        m == LatestMessageTime(d, contact, tenant)
    IN  IF m > ct.created_at THEN m ELSE ct.created_at

\* C23: the contacts GET /api/conversations/contacts returns are in descending
\* order of the later of the contact's latest message time under the tenant and
\* its creation time; a contact created after its latest message is placed by
\* its creation time.
ContactsByLatestActivity ==
    \A r \in DOMAIN reqs :
        LET sl == reqs[r]
        IN  (sl.pc = "done" /\ sl.status = 200
             /\ sl.req.ep = "GET /api/conversations/contacts") =>
                \A i, j \in DOMAIN sl.rows :
                    i < j => LaterOf(db, sl.rows[i].id, TenantOf(sl.req))
                               >= LaterOf(db, sl.rows[j].id, TenantOf(sl.req))

\* what holds of the code: a contact that has a message under the tenant is
\* placed by the time of its latest message, and by its creation time only
\* when it has none
ContactsByCoalesce ==
    \A r \in DOMAIN reqs :
        LET sl == reqs[r]
            key(id) == IF LatestMessageTime(db, id, TenantOf(sl.req)) # 0
                       THEN LatestMessageTime(db, id, TenantOf(sl.req))
                       ELSE (CHOOSE x \in db.contacts : x.id = id).created_at
        IN  (sl.pc = "done" /\ sl.status = 200
             /\ sl.req.ep = "GET /api/conversations/contacts") =>
                \A i, j \in DOMAIN sl.rows : i < j => key(sl.rows[i].id) >= key(sl.rows[j].id)

\* the time of the latest message of a session, 0 when it has none (the
\* sessions without message come last)
LatestMessageOf(d, session) ==
    LET times == {c.created_at : c \in {m \in d.conversations : m.session_id = session}}
    IN  IF times = {} THEN 0 ELSE CHOOSE t \in times : \A u \in times : u <= t

\* C24: across the pages of GET /api/conversations for one filter set the
\* sessions are in descending order of the time of their latest message: no
\* item of a page is earlier than an item after it on the page, or than an item
\* of a later page.
ConversationsByLatestMessage ==
    listing.ep = "GET /api/conversations" =>
        \A p, q \in 1..MaxPage :
            (p <= q /\ returned[p].status = 200 /\ returned[q].status = 200) =>
                \A i \in DOMAIN returned[p].rows, j \in DOMAIN returned[q].rows :
                    (p < q \/ i < j) =>
                        LatestMessageOf(db, returned[p].rows[i].id)
                            >= LatestMessageOf(db, returned[q].rows[j].id)

\* what holds of the code: the sessions are in ascending order of their id
ConversationsById ==
    listing.ep = "GET /api/conversations" =>
        \A p, q \in 1..MaxPage :
            (p <= q /\ returned[p].status = 200 /\ returned[q].status = 200) =>
                \A i \in DOMAIN returned[p].rows, j \in DOMAIN returned[q].rows :
                    (p < q \/ i < j) => returned[p].rows[i].id < returned[q].rows[j].id

\* the call of the helper in a slot has obtained its connection
Obtained(sl) == sl.pc # "idle" /\ (sl.pc = "done" => sl.message # "" /\ sl.issued # <<>>)

\* sql was sent at position i of a log and resolved, or rejected
Sent(log, i, sql, ok) == log[i].sql = sql /\ log[i].ok = ok

\* C25: for every call of the transaction helper that obtains a connection,
\* BEGIN is issued before the callback runs; COMMIT is issued only if the
\* callback completed without error; ROLLBACK is issued whenever BEGIN, the
\* callback or COMMIT fails and never after a successful COMMIT; and the
\* connection is released exactly once on every path, also when ROLLBACK fails.
TransactionProtocol ==
    \A r \in DOMAIN reqs :
        LET sl == reqs[r]
            log == sl.issued
            failed == \E i \in DOMAIN log :
                          log[i].sql \in {"BEGIN", "callback", "COMMIT"} /\ ~log[i].ok
        IN  /\ db.given[r] <= db.taken[r]
            /\ Obtained(sl) =>
                 /\ log # <<>> => log[1].sql = "BEGIN"
                 /\ \A i \in DOMAIN log :
                        log[i].sql = "callback" => \E j \in 1..(i - 1) : Sent(log, j, "BEGIN", TRUE)
                 /\ \A i \in DOMAIN log :
                        log[i].sql = "COMMIT" => \E j \in 1..(i - 1) : Sent(log, j, "callback", TRUE)
                 /\ \A i \in DOMAIN log :
                        log[i].sql = "ROLLBACK" =>
                            /\ failed
                            /\ \A j \in DOMAIN log : ~Sent(log, j, "COMMIT", TRUE)
                 /\ sl.pc \in {"release", "done"} =>
                        (failed <=> \E i \in DOMAIN log : log[i].sql = "ROLLBACK")
                 /\ db.given[r] = IF sl.pc = "done" THEN db.taken[r] ELSE db.taken[r] - 1
                 /\ sl.pc = "done" =>
                        (sl.message = "returned" <=> \E i \in DOMAIN log : Sent(log, i, "COMMIT", TRUE))
            /\ ~Obtained(sl) => db.given[r] = db.taken[r]

\* one call ended after COMMIT failed and ROLLBACK failed too, its connection
\* given back; the other committed and returned
TransactionProtocolWitness ==
    /\ reqs[1].pc = "done"
    /\ reqs[1].issued = <<[sql |-> "BEGIN", ok |-> TRUE], [sql |-> "callback", ok |-> TRUE],
                          [sql |-> "COMMIT", ok |-> FALSE], [sql |-> "ROLLBACK", ok |-> FALSE]>>
    /\ db.taken[1] = 1 /\ db.given[1] = 1
    /\ reqs[2].pc = "done" /\ reqs[2].message = "returned"
    /\ db.taken[2] = 2 /\ db.given[2] = 2

\* parameter v is the integer n, as a number or as its decimal text
Denotes(v, n) ==
    \/ v = Num(n)
    \/ IsStr(v) /\ v.str # <<>> /\ AllDigits(v.str) /\ DecValue(v.str) = n

\* C26: in every handler behind the tenant guard, the tenant identifier bound
\* to a statement is the integer the guard parsed, validated and attached to
\* the request; a raw request value the guard did not validate as such, like a
\* text "12abc" that parses to 12, never reaches a statement.
TenantParamIsGuards ==
    \A r \in DOMAIN reqs :
        LET sl == reqs[r]
        IN  (sl.req.ep \in GuardedRoutes /\ sl.companyId # Undefined) =>
                \A i \in DOMAIN sl.issued :
                    \/ Denotes(sl.issued[i].params[1], sl.companyId.num)
                    \/ sl.companyName # Undefined /\ sl.issued[i].params[1] = sl.companyName

\* the statement has a predicate on the status column
HasStatusPredicate(sql) ==
    \E i \in DOMAIN sql.where : \E j \in DOMAIN sql.where[i].toks :
        sql.where[i].toks[j].col \in {"s_status", "s2_status", "l_status"}

\* the parameter list carries the value of the status parameter of the request
HasStatusValue(params, q) ==
    /\ "status" \in DOMAIN q
    /\ \E i \in 2..Len(params) : params[i] = parseInt(Str(q["status"]))

\* C27: whatever the status parameter is (absent, a number, empty or another
\* text) in GET /api/conversations, /api/conversations/contacts, /api/sessions
\* and /api/leads, the count statement has the status predicate exactly when
\* the page statement has it, and the count parameter list has the status
\* value exactly when the count statement references it.
StatusFiltersAgree ==
    \A r \in DOMAIN reqs :
        LET sl == reqs[r]
        IN  (/\ sl.pc \in {"page", "count"}
             /\ sl.req.ep \in {"GET /api/conversations", "GET /api/conversations/contacts",
                               "GET /api/sessions", "GET /api/leads"}) =>
                LET plan == ListPlan(sl)
                IN  /\ HasStatusPredicate(plan.countSql) <=> HasStatusPredicate(plan.pageSql)
                    /\ HasStatusValue(plan.countParams, sl.req.query)
                           <=> HasStatusPredicate(plan.countSql)

\* what holds of the code: the predicate is in both statements or in neither
StatusPredicatesAgree ==
    \A r \in DOMAIN reqs :
        LET sl == reqs[r]
        IN  (/\ sl.pc \in {"page", "count"}
             /\ sl.req.ep \in {"GET /api/conversations", "GET /api/conversations/contacts",
                               "GET /api/sessions", "GET /api/leads"}) =>
                (HasStatusPredicate(ListPlan(sl).countSql)
                     <=> HasStatusPredicate(ListPlan(sl).pageSql))

\* a step of slot r sends a statement to the pool
Queries(r) == reqs'[r].pc # "idle" /\ reqs'[r].issued # reqs[r].issued

\* the request of slot r arrives and passes the middleware
Arrives(r) == reqs[r].pc = "idle" /\ reqs'[r].pc # "idle"

\* the steps of a request in their order: a statement is sent only for a slot
\* whose credential was verified in an earlier step, whose tenant identifier, on
\* a route with the guard, was validated by then, and whose response is not yet
\* sent; a request whose token is not valid is answered on arrival with one
\* of the refusals and no statement
StepsInOrder(refusals) ==
    \A r \in DOMAIN reqs :
        /\ Queries(r) =>
               /\ reqs[r].pc \notin {"idle", "done"}
               /\ reqs[r].req.token = "valid" /\ reqs[r].user # Undefined
               /\ reqs[r].req.ep \in GuardedRoutes => IsNum(reqs[r].companyId)
        /\ Arrives(r) =>
               /\ reqs'[r].issued = <<>>
               /\ reqs'[r].req.token # "valid" =>
                      /\ reqs'[r].pc = "done" /\ reqs'[r].status \in refusals
                      /\ reqs'[r].user = Undefined

\* C28: on every route with a tenant the steps of a request are identity
\* check, tenant guard, statements, response: no statement is sent unless the
\* bearer token was verified before and, on a route with the guard, the tenant
\* identifier validated after that; a request without a valid bearer token
\* ends with 401 and no statement.
IdentityGuardQueryResponse == [][StepsInOrder({401})]_vars

\* the same order, a request without a valid bearer token ending with 401 or,
\* when the verification fails in another way than by the token's form,
\* signature or expiry, with 500, and no statement
IdentityGuardQueryResponseOr500 == [][StepsInOrder({401, 500})]_vars

\* a request on a guarded route was served: identity attached, tenant
\* validated, both statements sent, answered 200
IdentityGuardQueryResponseWitness ==
    /\ reqs[1].req.ep = "GET /api/sessions" /\ reqs[1].req.token = "valid"
    /\ reqs[1].user # Undefined /\ IsNum(reqs[1].companyId)
    /\ Len(reqs[1].issued) = 2
    /\ reqs[1].pc = "done" /\ reqs[1].status = 200

\* the number of sessions of tenant companyId that satisfy P
SessionsWhere(companyId, P(_)) ==
    Num(Cardinality({s \in db.sessions : s.company_id = companyId /\ P(s)}))

\* C29: the session counts of GET /api/metrics/realtime (conversations
\* today, yesterday and this month, activeSessions) and of GET
\* /api/sessions/stats (total_sessions and the five counts by status) are each
\* the number of the tenant's sessions that satisfy the condition, whatever
\* Transfer and Discard records there are, and total_sessions is the sum of the
\* five counts by status.
SessionCountsCountSessions ==
    \A r \in DOMAIN reqs :
        LET sl == reqs[r]
            data == sl.rows[1]
            tenant == sl.companyId.num
        IN  sl.pc = "done" /\ sl.status = 200 =>
                /\ sl.req.ep = "GET /api/metrics/realtime" =>
                       /\ data.today.conversations =
                              SessionsWhere(tenant, LAMBDA s : s.created_at = db.today)
                       /\ data.yesterday.conversations =
                              SessionsWhere(tenant, LAMBDA s : s.created_at = db.today - 1)
                       /\ data.thisMonth.conversations =
                              SessionsWhere(tenant, LAMBDA s :
                                  DateTruncMonth(s.created_at) = DateTruncMonth(db.today))
                       /\ data.activeSessions =
                              SessionsWhere(tenant, LAMBDA s : s.status \in {0, 1, 2})
                /\ sl.req.ep = "GET /api/sessions/stats" =>
                       /\ data.total_sessions = SessionsWhere(tenant, LAMBDA s : TRUE)
                       /\ data.new_sessions = SessionsWhere(tenant, LAMBDA s : s.status = 0)
                       /\ data.active_sessions = SessionsWhere(tenant, LAMBDA s : s.status = 1)
                       /\ data.qualifying_sessions =
                              SessionsWhere(tenant, LAMBDA s : s.status = 2)
                       /\ data.completed_sessions =
                              SessionsWhere(tenant, LAMBDA s : s.status = 3)
                       /\ data.abandoned_sessions =
                              SessionsWhere(tenant, LAMBDA s : s.status = 4)
                       /\ data.total_sessions.num =
                              data.new_sessions.num + data.active_sessions.num
                              + data.qualifying_sessions.num + data.completed_sessions.num
                              + data.abandoned_sessions.num

\* the part of C29 that holds: in /stats total_sessions is the sum of the five
\* counts by status, and both routes count sessions when the tenant has at
\* most one Transfer record and no session has two Transfer or two Discard
\* records
SessionCountsWithoutFanOut ==
    \A r \in DOMAIN reqs :
        LET sl == reqs[r]
            data == sl.rows[1]
            tenant == sl.companyId.num
            single(t) == \A x, y \in t : x.session_id = y.session_id => x = y
        IN  sl.pc = "done" /\ sl.status = 200 =>
                /\ sl.req.ep = "GET /api/metrics/realtime"
                   /\ Cardinality({x \in db.transferred_leads : x.company_id = tenant}) <= 1 =>
                       /\ data.today.conversations =
                              SessionsWhere(tenant, LAMBDA s : s.created_at = db.today)
                       /\ data.activeSessions =
                              SessionsWhere(tenant, LAMBDA s : s.status \in {0, 1, 2})
                /\ sl.req.ep = "GET /api/sessions/stats" =>
                       /\ data.total_sessions.num =
                              data.new_sessions.num + data.active_sessions.num
                              + data.qualifying_sessions.num + data.completed_sessions.num
                              + data.abandoned_sessions.num
                       /\ single(db.transferred_leads) /\ single(db.discarded_leads) =>
                              data.total_sessions = SessionsWhere(tenant, LAMBDA s : TRUE)

====
